---- MODULE Spec2Model ----
(***************************************************************************)
(* The augmentation tracker of the MAR library (src/src/augment/           *)
(* mar_augment.cpp) as a state machine: the process-wide pipeline state,   *)
(* the registry of augmentations and one action per public function.       *)
(*                                                                         *)
(* Numbers.  The code computes in IEEE floats; the model computes in exact *)
(* rationals [n |-> numerator, d |-> denominator > 0] in lowest terms, so  *)
(* rounding is not modelled.  pinv(A)*b is computed as (A^T A)^+ (A^T b),  *)
(* with the pseudoinverse of the 3x3 Gram matrix taken by rank.            *)
(*                                                                         *)
(* Sizes.  The capacities of the source (32 augmentations, 512 reference   *)
(* keypoints, 256 matched keypoints, 128 descriptor floats, minimum counts *)
(* 5 and 10) are scaled down, keeping their order, so that TLC can fill    *)
(* every buffer; every definition below gives the source value in its      *)
(* comment.  The thresholds (2, 3.5, 1000) keep their source values.       *)
(***************************************************************************)
EXTENDS Integers, Sequences, FiniteSets, TLC

\* ------------------------------------------------------------ constants
\* mar_error.h
MAR_ERROR_NONE == 0
MAR_ERROR_MALLOC == 7
MAR_ERROR_DEVICE_OPEN == 10
MAR_ERROR_NO_BUFFER_QUEUED == 16
MAR_ERROR_NO_STREAM_ON == 17
MAR_ERROR_INTERRUPTED == 18
MAR_ERROR_DEVICE_SELECT == 19
MAR_ERROR_CAMERA_TIMEOUT == 20
MAR_ERROR_AGAIN == 21
MAR_ERROR_NO_BUFFER_DEQUEUED == 22
MAR_ERROR_CAM_TYPE_NOT_SUPPORTED == 24
MAR_ERROR_NO_CAMERAS_AVAILABLE == 25
MAR_ERROR_MSER_FILTER_NOT_CREATED == 26
MAR_ERROR_AUGMENTATION_ALREADY_INITIALIZED == 28
MAR_ERROR_READING_CONFIG == 29
MAR_ERROR_AUGMENTATION_NOT_INITIALIZED == 30
MAR_ERROR_TOO_FEW_MATCHING_KEYPOINTS == 31
MAR_ERROR_TOO_FEW_KEYPOINTS == 32
MAR_ERROR_NO_AUGMENTATION_RESOURCES_AVAILABLE == 33
MAR_ERROR_AUGMENTATION_ID_DOES_NOT_EXIST == 34

\* mar_augment.h.  Source value 255.
MAR_NO_AUGMENTATION == 255
\* Source value 32, scaled.
MAR_MAX_NUMBER_OF_AUGMENTATIONS == 2
\* Source value 2.
MAR_MAX_KEYPOINT_DIFFERENCE == 2
\* Source value 256, scaled.
MAR_MAX_NUM_OF_MATCHED_KEYPOINTS == 3
\* Source value 5, scaled.
MAR_MIN_NUM_OF_MATCHED_KEYPOINTS == 2
\* Source value 10, scaled.
MAR_MINIMUM_AUGMENTATION_KEYPOINTS == 3
\* Source value 1000.0f.
MAR_AUGMENT_MAX_SKEW == 1000
\* Source value 1000.0f.
MAR_AUGMENT_MAX_SCALE_RATIO == 1000
\* MAR_UNIQUE_KEYPOINT_THRESHOLD is 3.5 = 7 / 2.
MAR_UNIQUE_KEYPOINT_THRESHOLD_NUM == 7
MAR_UNIQUE_KEYPOINT_THRESHOLD_DEN == 2
\* Source value 512, scaled.
MAR_MAX_NUMBER_OF_AUGMENTATION_KEYPOINTS == 4
\* mar_sift.h: MAR_SIFT_NBO * MAR_SIFT_NBP * MAR_SIFT_NBP = 128 floats, scaled.
MAR_SIFT_DESCRIPTOR_LENGTH == 4
\* mar_augment.cpp:488 copies 128 bytes, that is 128 / sizeof(float) = 32 of
\* the 128 floats: the first quarter of the descriptor.
MAR_DESCRIPTOR_FLOATS_COPIED == 1
\* float.h FLT_MAX: larger than every descriptor distance of the model.
FLT_MAX == 1000000
\* mar_camera.h
MAR_CAM_MAX_NUM_CAMERAS == 2
MAR_CAM_NO_CAMERA == 255

\* ------------------------------------------------------------ rationals
Abs(a) == IF a < 0 THEN -a ELSE a

RECURSIVE GCD(_, _)
GCD(a, b) == IF b = 0 THEN a ELSE GCD(b, a % b)

Rat(n, d) ==
  LET g == GCD(Abs(n), Abs(d))
      s == IF d < 0 THEN -1 ELSE 1
  IN  [n |-> (s * n) \div g, d |-> (s * d) \div g]

Q(i) == [n |-> i, d |-> 1]
RAdd(p, q) == Rat(p.n * q.d + q.n * p.d, p.d * q.d)
RSub(p, q) == Rat(p.n * q.d - q.n * p.d, p.d * q.d)
RMul(p, q) == Rat(p.n * q.n, p.d * q.d)
RLess(p, q) == p.n * q.d < q.n * p.d
RAbs(p) == [n |-> Abs(p.n), d |-> p.d]
\* p / q for q # 0
RDiv(p, q) == Rat(p.n * q.d, p.d * q.n)

\* ------------------------------------------------------------ matrices
ZeroMat3 == << <<Q(0), Q(0), Q(0)>>, <<Q(0), Q(0), Q(0)>>, <<Q(0), Q(0), Q(0)>> >>
IdentityMat3 == << <<Q(1), Q(0), Q(0)>>, <<Q(0), Q(1), Q(0)>>, <<Q(0), Q(0), Q(1)>> >>

\* fmat product of two 3x3 matrices
MatMul3(A, B) ==
  [i \in 1..3 |-> [j \in 1..3 |->
     RAdd(RAdd(RMul(A[i][1], B[1][j]), RMul(A[i][2], B[2][j])), RMul(A[i][3], B[3][j]))]]

\* fmat product of a 3x3 matrix and the column (x, y, 1)
MatVec3(A, x, y) ==
  [i \in 1..3 |-> RAdd(RAdd(RMul(A[i][1], x), RMul(A[i][2], y)), A[i][3])]

\* ------------------------------------------------------------ pure helpers
\* A keypoint with integer image coordinates (radius and angle are stored by
\* the code but never read by the tracker, and are left out).
KP(x, y, desc) == [x |-> Q(x), y |-> Q(y), descriptor |-> desc]

\* The content of zero-initialised static storage.
ZeroKeypoint == KP(0, 0, [c \in 1..MAR_SIFT_DESCRIPTOR_LENGTH |-> 0])
ZeroMser == [ellipse_x |-> 0, ellipse_y |-> 0, ellipse_a |-> 0, ellipse_b |-> 0,
             ellipse_angle |-> 0]

RECURSIVE SumAbsDiff(_, _, _)
SumAbsDiff(d1, d2, i) ==
  IF i > MAR_SIFT_DESCRIPTOR_LENGTH THEN 0
  ELSE Abs(d1[i] - d2[i]) + SumAbsDiff(d1, d2, i + 1)

\* get_keypoint_difference: the L1 distance of the two descriptors
get_keypoint_difference(k1, k2) == SumAbsDiff(k1.descriptor, k2.descriptor, 1)

\* sin and cos (math.h) of an angle given as a multiple of atan(3 / 4), for
\* which both are rational: cos + i sin = ((4 + 3i) / 5) ^ k.
sin(k) ==
  CASE k = 0 -> Q(0)
    [] k = 1 -> Rat(3, 5) [] k = -1 -> Rat(-3, 5)
    [] k = 2 -> Rat(24, 25) [] k = -2 -> Rat(-24, 25)
cos(k) ==
  CASE k = 0 -> Q(1)
    [] k = 1 -> Rat(4, 5) [] k = -1 -> Rat(4, 5)
    [] k = 2 -> Rat(7, 25) [] k = -2 -> Rat(7, 25)

\* is_point_in_ellipse with the boundary of the doubled ellipse inside.
is_point_in_ellipse_Closed(px, py, ellipse_x, ellipse_y, ellipse_a, ellipse_b, ellipse_angle) ==
  LET x == RSub(px, Q(ellipse_x))
      y == RSub(py, Q(ellipse_y))
      beta == ellipse_angle * (IF ellipse_a > ellipse_b THEN 1 ELSE -1)
      sinbeta == sin(beta)
      cosbeta == cos(beta)
      rx == RSub(RMul(cosbeta, x), RMul(sinbeta, y))
      ry == RAdd(RMul(sinbeta, x), RMul(cosbeta, y))
      a2 == Q(ellipse_a * ellipse_a * 4)
      b2 == Q(ellipse_b * ellipse_b * 4)
  IN  IF ellipse_a = 0 \/ ellipse_b = 0 THEN FALSE
      ELSE ~RLess(Q(1), RAdd(RDiv(RMul(rx, rx), a2), RDiv(RMul(ry, ry), b2)))

\* is_point_in_ellipse.  A zero axis divides by zero in the code: the
\* quotient is +inf or NaN and the comparison with 1 is false.
is_point_in_ellipse(px, py, ellipse_x, ellipse_y, ellipse_a, ellipse_b, ellipse_angle) ==
  LET x == RSub(px, Q(ellipse_x))
      y == RSub(py, Q(ellipse_y))
      beta == ellipse_angle * (IF ellipse_a > ellipse_b THEN 1 ELSE -1)
      sinbeta == sin(beta)
      cosbeta == cos(beta)
      rx == RSub(RMul(cosbeta, x), RMul(sinbeta, y))
      ry == RAdd(RMul(sinbeta, x), RMul(cosbeta, y))
      a2 == Q(ellipse_a * ellipse_a * 4)
      b2 == Q(ellipse_b * ellipse_b * 4)
  IN  IF ellipse_a = 0 \/ ellipse_b = 0 THEN FALSE
      ELSE RLess(RAdd(RDiv(RMul(rx, rx), a2), RDiv(RMul(ry, ry), b2)), Q(1))

\* BestMatchLoop without the else branch that lowers second_best_diff.
RECURSIVE BestMatchLoop_NoSecond(_, _, _, _, _, _, _)
BestMatchLoop_NoSecond(k, keypoints, num_keypoints, i, best_i, best_diff, second_best_diff) ==
  IF i >= num_keypoints
  THEN [best_i |-> best_i, best_diff |-> best_diff, second_best_diff |-> second_best_diff]
  ELSE IF get_keypoint_difference(k, keypoints[i + 1]) < best_diff
  THEN BestMatchLoop_NoSecond(k, keypoints, num_keypoints, i + 1, i,
                              get_keypoint_difference(k, keypoints[i + 1]), best_diff)
  ELSE BestMatchLoop_NoSecond(k, keypoints, num_keypoints, i + 1, best_i, best_diff,
                              second_best_diff)

\* The loop of get_best_keypoint_match over keypoints[i .. num_keypoints - 1]
\* (C indices; the TLA+ sequence holds keypoints[i] at position i + 1).
RECURSIVE BestMatchLoop(_, _, _, _, _, _, _)
BestMatchLoop(k, keypoints, num_keypoints, i, best_i, best_diff, second_best_diff) ==
  IF i >= num_keypoints
  THEN [best_i |-> best_i, best_diff |-> best_diff, second_best_diff |-> second_best_diff]
  ELSE LET difference == get_keypoint_difference(k, keypoints[i + 1])
       IN  IF difference < best_diff
           THEN BestMatchLoop(k, keypoints, num_keypoints, i + 1, i, difference, best_diff)
           ELSE IF difference < second_best_diff
           THEN BestMatchLoop(k, keypoints, num_keypoints, i + 1, best_i, best_diff, difference)
           ELSE BestMatchLoop(k, keypoints, num_keypoints, i + 1, best_i, best_diff,
                              second_best_diff)

\* UniqueMatch with a second best at exactly the threshold rejected.
UniqueMatch_Strict(best_diff, second_best_diff) ==
  best_diff * MAR_UNIQUE_KEYPOINT_THRESHOLD_NUM
    < second_best_diff * MAR_UNIQUE_KEYPOINT_THRESHOLD_DEN

\* The uniqueness test of get_best_keypoint_match:
\* best_diff * MAR_UNIQUE_KEYPOINT_THRESHOLD <= second_best_diff
UniqueMatch(best_diff, second_best_diff) ==
  best_diff * MAR_UNIQUE_KEYPOINT_THRESHOLD_NUM
    <= second_best_diff * MAR_UNIQUE_KEYPOINT_THRESHOLD_DEN

\* get_best_keypoint_match: k is the returned index (-1: no unique match),
\* best_difference the value stored through the out parameter.
get_best_keypoint_match(k, keypoints, num_keypoints) ==
  LET r == BestMatchLoop(k, keypoints, num_keypoints, 0, -1, FLT_MAX, 0)
  IN  [k |-> IF UniqueMatch(r.best_diff, r.second_best_diff) THEN r.best_i ELSE -1,
       best_difference |-> r.best_diff]

\* ------------------------------------------------------------ affine solver
Det3(M) ==
    M[1][1] * (M[2][2] * M[3][3] - M[2][3] * M[3][2])
  - M[1][2] * (M[2][1] * M[3][3] - M[2][3] * M[3][1])
  + M[1][3] * (M[2][1] * M[3][2] - M[2][2] * M[3][1])

\* the sum of the principal 2x2 minors, and the trace
Minors3(M) ==
    (M[1][1] * M[2][2] - M[1][2] * M[2][1])
  + (M[1][1] * M[3][3] - M[1][3] * M[3][1])
  + (M[2][2] * M[3][3] - M[2][3] * M[3][2])
Trace3(M) == M[1][1] + M[2][2] + M[3][3]

IntMatVec3(M, r) == [i \in 1..3 |-> M[i][1] * r[1] + M[i][2] * r[2] + M[i][3] * r[3]]

\* Cramer's rule with r put in the column after column i
CramerNum_NextColumn(M, r, i) ==
  Det3([p \in 1..3 |-> [q \in 1..3 |-> IF q = (i % 3) + 1 THEN r[p] ELSE M[p][q]]])

\* adj(M) r for a symmetric M (Cramer's rule: column i of M replaced by r)
CramerNum(M, r, i) ==
  Det3([p \in 1..3 |-> [q \in 1..3 |-> IF q = i THEN r[p] ELSE M[p][q]]])

\* M^+ r for a symmetric positive semidefinite integer matrix M and r in the
\* range of M, as numerators over one denominator.  Rank 3: M^-1 r.  Rank 2
\* (eigenvalues l1, l2, 0; c1 = l1 + l2, c2 = l1 l2): (c1 I - M) r / c2.
\* Rank 1: r / c1.
PinvApply(M, r) ==
  LET det == Det3(M)
      c2 == Minors3(M)
      c1 == Trace3(M)
      Mr == IntMatVec3(M, r)
  IN  IF det # 0 THEN [num |-> [i \in 1..3 |-> CramerNum(M, r, i)], den |-> det]
      ELSE IF c2 # 0 THEN [num |-> [i \in 1..3 |-> c1 * r[i] - Mr[i]], den |-> c2]
      ELSE IF c1 # 0 THEN [num |-> r, den |-> c1]
      ELSE [num |-> <<0, 0, 0>>, den |-> 1]

RECURSIVE LcmDen(_, _)
LcmDen(s, i) ==
  IF i > Len(s) THEN 1
  ELSE LET l == LcmDen(s, i + 1) IN (l * s[i].d) \div GCD(l, s[i].d)

RECURSIVE SumSeq(_, _)
SumSeq(s, i) == IF i > Len(s) THEN 0 ELSE s[i] + SumSeq(s, i + 1)

\* T = pinv(A) * b for the 2k x 6 design matrix of mar_augment_update, rows
\* [x y 0 0 1 0] and [0 0 x y 0 1], and b = (u1 v1 ... uk vk).  The columns
\* split into two independent 3-column least-squares problems with the same
\* Gram matrix.  With x = X / L, y = Y / L, u = U / K, v = V / K for integers
\* X, Y, U, V: (A^T A) = G / L^2 and A^T b = r / (L K) for the integer G, r
\* below, so pinv(A) b = (L / K) G^+ r.
\* The result is the column T(0..5) = (m00, m01, m10, m11, tx, ty).
SolveAffine(x, y, u, v) ==
  LET k == Len(x)
      L == LcmDen(x \o y, 1)
      K == LcmDen(u \o v, 1)
      X == [j \in 1..k |-> x[j].n * (L \div x[j].d)]
      Y == [j \in 1..k |-> y[j].n * (L \div y[j].d)]
      U == [j \in 1..k |-> u[j].n * (K \div u[j].d)]
      V == [j \in 1..k |-> v[j].n * (K \div v[j].d)]
      G == << << SumSeq([j \in 1..k |-> X[j] * X[j]], 1),
                 SumSeq([j \in 1..k |-> X[j] * Y[j]], 1), L * SumSeq(X, 1) >>,
              << SumSeq([j \in 1..k |-> X[j] * Y[j]], 1),
                 SumSeq([j \in 1..k |-> Y[j] * Y[j]], 1), L * SumSeq(Y, 1) >>,
              << L * SumSeq(X, 1), L * SumSeq(Y, 1), L * L * k >> >>
      ru == << SumSeq([j \in 1..k |-> X[j] * U[j]], 1),
               SumSeq([j \in 1..k |-> Y[j] * U[j]], 1), L * SumSeq(U, 1) >>
      rv == << SumSeq([j \in 1..k |-> X[j] * V[j]], 1),
               SumSeq([j \in 1..k |-> Y[j] * V[j]], 1), L * SumSeq(V, 1) >>
      su == PinvApply(G, ru)
      sv == PinvApply(G, rv)
      Coef(s, i) == RMul(Rat(L, K), Rat(s.num[i], s.den))
  IN  << Coef(su, 1), Coef(su, 2), Coef(sv, 1), Coef(sv, 2), Coef(su, 3), Coef(sv, 3) >>

\* ------------------------------------------------------------ one augmentation
\* mar_augment_untransform_point on a live augmentation of an initialized
\* pipeline: transform_inverse * (x, y, 1)
UntransformBy(aug, x, y) == MatVec3(aug.transform_inverse, x, y)
\* mar_augment_transform_point likewise: transform * (x, y, 1)
TransformBy(aug, x, y) == MatVec3(aug.transform, x, y)

\* "Find keypoints within the given ellipse": the keypoints of the frame whose
\* untransformed position lies in the augmentation's ellipse, in frame order.
ContainedKeypoints(aug, keypoints) ==
  LET Inside(kp) ==
        LET o == UntransformBy(aug, kp.x, kp.y)
        IN  is_point_in_ellipse(o[1], o[2], aug.mser.ellipse_x, aug.mser.ellipse_y,
                                aug.mser.ellipse_a, aug.mser.ellipse_b,
                                aug.mser.ellipse_angle)
  IN  SelectSeq(keypoints, Inside)

\* The locals x, y, u, v, differences of mar_augment_update as one sequence of
\* MAR_MAX_NUM_OF_MATCHED_KEYPOINTS entries.  x, y, u, v are uninitialised
\* stack memory (junk); the differences are set to MAR_MAX_KEYPOINT_DIFFERENCE.
InitialMatchBuffer(junk) ==
  [l \in 1..MAR_MAX_NUM_OF_MATCHED_KEYPOINTS |->
     [x |-> Q(junk), y |-> Q(junk), u |-> Q(junk), v |-> Q(junk),
      difference |-> MAR_MAX_KEYPOINT_DIFFERENCE]]

\* "Find which slot it should be placed in and place it there": the first l
\* with best_difference < differences[l]; the entries from l on move up by one
\* and the last one drops out.
InsertMatch(buf, entry) ==
  LET l == CHOOSE l \in 1..MAR_MAX_NUM_OF_MATCHED_KEYPOINTS :
             /\ entry.difference < buf[l].difference
             /\ \A m \in 1..(l - 1) : ~(entry.difference < buf[m].difference)
  IN  [m \in 1..MAR_MAX_NUM_OF_MATCHED_KEYPOINTS |->
         IF m < l THEN buf[m] ELSE IF m = l THEN entry ELSE buf[m - 1]]

\* memcpy(initial_keypoints[k].descriptor, contained_keypoints[j].descriptor, 128):
\* 128 bytes, the first MAR_DESCRIPTOR_FLOATS_COPIED floats of the descriptor.
CopyDescriptor(dst, src) ==
  [c \in 1..MAR_SIFT_DESCRIPTOR_LENGTH |->
     IF c <= MAR_DESCRIPTOR_FLOATS_COPIED THEN src[c] ELSE dst[c]]

\* Whether a uniquely matched keypoint enters the buffer and is counted in
\* matched_keypoints: best_difference < differences[MAX - 1].
CountsAsMatch(best_difference, buf) ==
  best_difference < buf[MAR_MAX_NUM_OF_MATCHED_KEYPOINTS].difference

\* One matching loop of mar_augment_update over the keypoints probes[j..]:
\* the patch loop (lines 449-490, update_descriptor = TRUE) and the whole-frame
\* loop (lines 502-540, which has no memcpy, update_descriptor = FALSE).
\* st = [buf, matched_keypoints, initial_keypoints, probes, accepted, low].
\* probes, accepted and low are not variables of the code: probes counts the
\* keypoints the loop has looked at, accepted those for which
\* get_best_keypoint_match returned an index, low those of them whose
\* best_difference is below MAR_MAX_KEYPOINT_DIFFERENCE.
RECURSIVE MatchLoop(_, _, _, _, _)
MatchLoop(probes, j, num_initial_keypoints, update_descriptor, st) ==
  IF j > Len(probes) THEN st
  ELSE
    LET r == get_best_keypoint_match(probes[j], st.initial_keypoints, num_initial_keypoints)
        ref == st.initial_keypoints[r.k + 1]
        counted == CountsAsMatch(r.best_difference, st.buf)
        entry == [x |-> ref.x, y |-> ref.y, u |-> probes[j].x, v |-> probes[j].y,
                  difference |-> r.best_difference]
        next ==
          IF r.k = -1 THEN [st EXCEPT !.probes = @ + 1]
          ELSE [buf |-> IF counted THEN InsertMatch(st.buf, entry) ELSE st.buf,
                matched_keypoints |-> st.matched_keypoints + (IF counted THEN 1 ELSE 0),
                initial_keypoints |->
                  IF update_descriptor
                  THEN [st.initial_keypoints EXCEPT ![r.k + 1].descriptor =
                          CopyDescriptor(@, probes[j].descriptor)]
                  ELSE st.initial_keypoints,
                probes |-> st.probes + 1,
                accepted |-> st.accepted + 1,
                low |-> st.low + (IF r.best_difference < MAR_MAX_KEYPOINT_DIFFERENCE
                                  THEN 1 ELSE 0)]
    IN  MatchLoop(probes, j + 1, num_initial_keypoints, update_descriptor, next)

\* FallbackNeeded with MAR_MIN_NUM_OF_MATCHED_KEYPOINTS matches not enough.
FallbackNeeded_AtMost(matched_keypoints) ==
  matched_keypoints <= MAR_MIN_NUM_OF_MATCHED_KEYPOINTS

\* "If we can't find them in the augmented MSER region, then look in the whole
\* frame to refocus"
FallbackNeeded(matched_keypoints) == matched_keypoints < MAR_MIN_NUM_OF_MATCHED_KEYPOINTS

\* FitAccepted with the limits themselves rejected.
FitAccepted_Strict(T) ==
  /\ RLess(RAbs(RAdd(T[2], T[3])), Q(MAR_AUGMENT_MAX_SKEW))
  /\ RLess(RAbs(RSub(T[1], T[4])), Q(MAR_AUGMENT_MAX_SCALE_RATIO))

\* The skew and scale-ratio checks on the solved column T (lines 578-593):
\* TRUE when neither check rejects the fit.
FitAccepted(T) ==
  /\ ~RLess(Q(MAR_AUGMENT_MAX_SKEW), RAbs(RAdd(T[2], T[3])))
  /\ ~RLess(Q(MAR_AUGMENT_MAX_SCALE_RATIO), RAbs(RSub(T[1], T[4])))

\* "Set the transformation matrix" (lines 595-604)
TransformOf(T) ==
  << <<T[1], T[2], T[5]>>, <<T[3], T[4], T[6]>>, <<Q(0), Q(0), Q(1)>> >>

\* The "Add new points" loop (lines 635-662) from index j on.  contained is
\* the malloc'ed copy of the patch keypoints; the loop bound num_keypoints is
\* the local that line 653 increments, so j can pass the end of contained and
\* the read then yields whatever lies behind the buffer (junk_keypoint).
\* g = [aug, num_keypoints, new_potential_keypoints, reads, promoted,
\* promoted_by_new], the last three counting the keypoints read, the keypoints
\* promoted, and those of them whose best potential was written by this loop.
RECURSIVE GrowLoop(_, _, _, _)
GrowLoop(contained, j, junk_keypoint, g) ==
  IF ~(j < g.num_keypoints
       /\ g.new_potential_keypoints < MAR_MAX_NUMBER_OF_AUGMENTATION_KEYPOINTS)
  THEN g
  ELSE
    LET kp == IF j < Len(contained) THEN contained[j + 1] ELSE junk_keypoint
        aug == g.aug
        r1 == get_best_keypoint_match(kp, aug.initial_keypoints, aug.num_initial_keypoints)
        r2 == get_best_keypoint_match(kp, aug.potential_keypoints,
                                      aug.num_potential_keypoints)
        o == UntransformBy(aug, kp.x, kp.y)
        next ==
          IF r1.best_difference > MAR_MAX_KEYPOINT_DIFFERENCE
          THEN IF r2.k # -1 /\ r2.best_difference < MAR_MAX_KEYPOINT_DIFFERENCE
               THEN [g EXCEPT
                       !.aug.initial_keypoints[aug.new_keypoint_cursor + 1] =
                          [x |-> o[1], y |-> o[2], descriptor |-> kp.descriptor],
                       !.num_keypoints =
                          IF @ >= MAR_MAX_NUMBER_OF_AUGMENTATION_KEYPOINTS
                          THEN MAR_MAX_NUMBER_OF_AUGMENTATION_KEYPOINTS ELSE @ + 1,
                       !.aug.new_keypoint_cursor =
                          (@ + 1) % MAR_MAX_NUMBER_OF_AUGMENTATION_KEYPOINTS,
                       !.reads = @ + 1,
                       !.promoted = @ + 1,
                       !.promoted_by_new =
                          IF r2.k < g.new_potential_keypoints THEN @ + 1 ELSE @]
               ELSE [g EXCEPT !.reads = @ + 1]
          ELSE [g EXCEPT
                  !.aug.potential_keypoints[g.new_potential_keypoints + 1] = kp,
                  !.new_potential_keypoints = @ + 1,
                  !.reads = @ + 1]
    IN  GrowLoop(contained, j + 1, junk_keypoint, next)

\* What processing one augmentation leaves behind when it was not processed.
NoTrace ==
  [processed |-> FALSE, patch |-> 0, patch_accepted |-> 0, patch_matched |-> 0,
   patch_low |-> 0, fallback |-> FALSE, probes |-> 0, accepted |-> 0, low |-> 0,
   matched_keypoints |-> 0,
   solved |-> FALSE, T |-> <<>>, grow_patch |-> 0, grow_reads |-> 0, promoted |-> 0,
   promoted_by_new |-> 0]

\* The body of the loop over the augmentations in mar_augment_update (lines
\* 417-671) for one live augmentation, in the order of the code; each stage
\* hands what it computed to the next.  The result is the new augmentation
\* record, its entry of mar_augmentation_successful, and the values of the
\* locals (trace).  junk = [f, kp]: what reads outside x, y, u, v and
\* contained_keypoints yield.

\* "Add new points" (lines 610-666), g the state the loop ends in
AfterGrow(trace, grow_patch, g) ==
  [aug |-> [g.aug EXCEPT !.num_potential_keypoints = g.new_potential_keypoints],
   successful |-> MAR_ERROR_NONE,
   trace |-> [trace EXCEPT !.grow_patch = grow_patch, !.grow_reads = g.reads,
                           !.promoted = g.promoted,
                           !.promoted_by_new = g.promoted_by_new]]

Grow(aug, contained, junk, trace) ==
  AfterGrow(trace, Len(contained),
            GrowLoop(contained, 0, junk.kp,
                     [aug |-> aug, num_keypoints |-> Len(contained),
                      new_potential_keypoints |-> 0, reads |-> 0, promoted |-> 0,
                      promoted_by_new |-> 0]))

\* AfterFit with the transform written before the checks.
AfterFit_CommitFirst(aug, keypoints, junk, trace, T) ==
  IF ~FitAccepted(T)
  THEN [aug |-> [aug EXCEPT !.transform = TransformOf(T)],
        successful |-> MAR_ERROR_TOO_FEW_MATCHING_KEYPOINTS,
        trace |-> [trace EXCEPT !.solved = TRUE, !.T = T]]
  ELSE Grow([aug EXCEPT !.transform = TransformOf(T)],
            ContainedKeypoints([aug EXCEPT !.transform = TransformOf(T)], keypoints),
            junk, [trace EXCEPT !.solved = TRUE, !.T = T])

\* The checks on the solved column T and what follows them (lines 576-671)
AfterFit(aug, keypoints, junk, trace, T) ==
  IF ~FitAccepted(T)
  THEN [aug |-> aug, successful |-> MAR_ERROR_TOO_FEW_MATCHING_KEYPOINTS,
        trace |-> [trace EXCEPT !.solved = TRUE, !.T = T]]
  ELSE Grow([aug EXCEPT !.transform = TransformOf(T)],
            ContainedKeypoints([aug EXCEPT !.transform = TransformOf(T)], keypoints),
            junk, [trace EXCEPT !.solved = TRUE, !.T = T])

\* x[j], y[j], u[j], v[j] for j < matched_keypoints (1-based here); past the
\* end of the arrays the read yields junk
MatchAt(buf, j, junk) ==
  IF j <= MAR_MAX_NUM_OF_MATCHED_KEYPOINTS THEN buf[j]
  ELSE [x |-> Q(junk.f), y |-> Q(junk.f), u |-> Q(junk.f), v |-> Q(junk.f),
        difference |-> MAR_MAX_KEYPOINT_DIFFERENCE]

\* AfterMatching with the fit started only above MAR_MIN_NUM_OF_MATCHED_KEYPOINTS.
AfterMatching_Above(aug, keypoints, junk, trace, st) ==
  IF st.matched_keypoints > MAR_MIN_NUM_OF_MATCHED_KEYPOINTS
  THEN AfterFit([aug EXCEPT !.initial_keypoints = st.initial_keypoints],
                keypoints, junk,
                [trace EXCEPT !.matched_keypoints = st.matched_keypoints,
                              !.probes = st.probes, !.accepted = st.accepted,
                              !.low = st.low],
                SolveAffine([j \in 1..st.matched_keypoints |-> MatchAt(st.buf, j, junk).x],
                            [j \in 1..st.matched_keypoints |-> MatchAt(st.buf, j, junk).y],
                            [j \in 1..st.matched_keypoints |-> MatchAt(st.buf, j, junk).u],
                            [j \in 1..st.matched_keypoints |-> MatchAt(st.buf, j, junk).v]))
  ELSE [aug |-> [aug EXCEPT !.initial_keypoints = st.initial_keypoints],
        successful |-> MAR_ERROR_TOO_FEW_MATCHING_KEYPOINTS,
        trace |-> [trace EXCEPT !.matched_keypoints = st.matched_keypoints,
                                !.probes = st.probes, !.accepted = st.accepted,
                                !.low = st.low]]

\* AfterMatching with the potential list emptied when too few keypoints matched.
AfterMatching_DropPotentials(aug, keypoints, junk, trace, st) ==
  IF st.matched_keypoints >= MAR_MIN_NUM_OF_MATCHED_KEYPOINTS
  THEN AfterFit([aug EXCEPT !.initial_keypoints = st.initial_keypoints],
                keypoints, junk,
                [trace EXCEPT !.matched_keypoints = st.matched_keypoints,
                              !.probes = st.probes, !.accepted = st.accepted,
                              !.low = st.low],
                SolveAffine([j \in 1..st.matched_keypoints |-> MatchAt(st.buf, j, junk).x],
                            [j \in 1..st.matched_keypoints |-> MatchAt(st.buf, j, junk).y],
                            [j \in 1..st.matched_keypoints |-> MatchAt(st.buf, j, junk).u],
                            [j \in 1..st.matched_keypoints |-> MatchAt(st.buf, j, junk).v]))
  ELSE [aug |-> [aug EXCEPT !.initial_keypoints = st.initial_keypoints,
                            !.num_potential_keypoints = 0],
        successful |-> MAR_ERROR_TOO_FEW_MATCHING_KEYPOINTS,
        trace |-> [trace EXCEPT !.matched_keypoints = st.matched_keypoints,
                                !.probes = st.probes, !.accepted = st.accepted,
                                !.low = st.low]]

\* "Check if a sufficient number of keypoints has been matched" (lines 546-576,
\* 667-671), st the state the matching ends in
AfterMatching(aug, keypoints, junk, trace, st) ==
  IF st.matched_keypoints >= MAR_MIN_NUM_OF_MATCHED_KEYPOINTS
  THEN AfterFit([aug EXCEPT !.initial_keypoints = st.initial_keypoints],
                keypoints, junk,
                [trace EXCEPT !.matched_keypoints = st.matched_keypoints,
                              !.probes = st.probes, !.accepted = st.accepted,
                              !.low = st.low],
                SolveAffine([j \in 1..st.matched_keypoints |-> MatchAt(st.buf, j, junk).x],
                            [j \in 1..st.matched_keypoints |-> MatchAt(st.buf, j, junk).y],
                            [j \in 1..st.matched_keypoints |-> MatchAt(st.buf, j, junk).u],
                            [j \in 1..st.matched_keypoints |-> MatchAt(st.buf, j, junk).v]))
  ELSE [aug |-> [aug EXCEPT !.initial_keypoints = st.initial_keypoints],
        successful |-> MAR_ERROR_TOO_FEW_MATCHING_KEYPOINTS,
        trace |-> [trace EXCEPT !.matched_keypoints = st.matched_keypoints,
                                !.probes = st.probes, !.accepted = st.accepted,
                                !.low = st.low]]

\* The whole-frame matching (lines 494-541), st1 the state the patch matching
\* ended in: matched_keypoints and the differences are reset, x, y, u, v and
\* the descriptors written by the patch loop stay
Fallback(aug, keypoints, junk, trace, st1) ==
  AfterMatching(aug, keypoints, junk, trace,
    MatchLoop(keypoints, 1, aug.num_initial_keypoints, FALSE,
              [st1 EXCEPT !.buf = [l \in DOMAIN st1.buf |->
                                     [st1.buf[l] EXCEPT !.difference =
                                        MAR_MAX_KEYPOINT_DIFFERENCE]],
                          !.matched_keypoints = 0, !.probes = 0, !.accepted = 0,
                          !.low = 0]))

\* The values the trace keeps of the patch matching
PatchTrace(patch, st1) ==
  [NoTrace EXCEPT !.processed = TRUE, !.patch = patch,
                  !.patch_accepted = st1.accepted, !.patch_low = st1.low,
                  !.patch_matched = st1.matched_keypoints]

\* After the patch matching (lines 494-499), patch the number of keypoints in
\* the patch and st1 the state the patch matching ended in
AfterPatch(aug, keypoints, junk, patch, st1) ==
  IF FallbackNeeded(st1.matched_keypoints)
  THEN Fallback(aug, keypoints, junk, [PatchTrace(patch, st1) EXCEPT !.fallback = TRUE], st1)
  ELSE AfterMatching(aug, keypoints, junk, PatchTrace(patch, st1), st1)

\* The patch matching (lines 419-491), contained the keypoints of the patch
Patch(aug, keypoints, junk, contained) ==
  AfterPatch(aug, keypoints, junk, Len(contained),
    MatchLoop(contained, 1, aug.num_initial_keypoints, TRUE,
              [buf |-> InitialMatchBuffer(junk.f), matched_keypoints |-> 0,
               initial_keypoints |-> aug.initial_keypoints, probes |-> 0,
               accepted |-> 0, low |-> 0]))

UpdateAugmentation(aug, keypoints, junk) ==
  Patch(aug, keypoints, junk, ContainedKeypoints(aug, keypoints))

\* ------------------------------------------------------------ inputs
\* The frames the camera can deliver are given by what the detectors find in
\* them.  Descriptors of different features are 16 apart; e1 and e3 perturb
\* the first and the third float of the descriptor.
Desc(k, e1, e3) ==
  [c \in 1..MAR_SIFT_DESCRIPTOR_LENGTH |->
     IF c = 1 THEN 16 * k + e1 ELSE IF c = 3 THEN e3 ELSE 0]

\* The regions the caller registers.  RegionA contains the image origin in
\* its doubled-axis ellipse, RegionB does not.
RegionA == [ellipse_x |-> 2, ellipse_y |-> 2, ellipse_a |-> 2, ellipse_b |-> 2,
            ellipse_angle |-> 0]
RegionB == [ellipse_x |-> 12, ellipse_y |-> 2, ellipse_a |-> 2, ellipse_b |-> 2,
            ellipse_angle |-> 0]
Regions == {RegionA, RegionB}

\* The frames the camera delivers are frames 1 .. NumFrames of the catalogue
\* below when the whole interface is exercised (Spec), and TrackFrames when
\* only the tracker is (TrackSpec).
NumFrames == 1
TrackFrames == {1, 2, 3, 4, 6, 7, 8, 9, 16, 17, 18}
GrowFrames == {1, 10, 13}
PairFrames == {1, 3, 17}
PromoteFrames == {1, 11, 12, 16, 19, 20, 21}
OwnerFrames == {1, 16}

\* Frame 0 is the frame buffer before the first capture (no keypoints).
FrameKeypoints(f) ==
  CASE f = 1 -> \* three features inside RegionA
         << KP(1, 2, Desc(0, 0, 0)), KP(3, 2, Desc(1, 0, 0)), KP(2, 3, Desc(2, 0, 0)) >>
    [] f = 2 -> \* the same features moved by (10, 0), inside RegionB
         << KP(11, 2, Desc(0, 0, 0)), KP(13, 2, Desc(1, 0, 0)), KP(12, 3, Desc(2, 0, 0)) >>
    [] f = 3 -> \* two features only
         << KP(1, 2, Desc(0, 0, 0)), KP(3, 2, Desc(1, 0, 0)) >>
    [] f = 4 -> \* the features at distance 3 in the third float
         << KP(1, 2, Desc(0, 0, 3)), KP(3, 2, Desc(1, 0, 3)), KP(2, 3, Desc(2, 0, 3)) >>
    [] f = 5 -> \* the features at distance 1 in the first float, moved by (0, 1)
         << KP(1, 3, Desc(0, 1, 0)), KP(3, 3, Desc(1, 1, 0)), KP(2, 4, Desc(2, 1, 0)) >>
    [] f = 6 -> \* x stretched by 1000 about the origin, y flattened
         << KP(0, 0, Desc(0, 0, 0)), KP(1000, 0, Desc(1, 0, 0)), KP(500, 0, Desc(2, 0, 0)) >>
    [] f = 7 -> \* x stretched by 1002
         << KP(0, 0, Desc(0, 0, 0)), KP(1002, 0, Desc(1, 0, 0)), KP(501, 0, Desc(2, 0, 0)) >>
    [] f = 8 -> \* x mapped to y with factor 1000
         << KP(0, 0, Desc(0, 0, 0)), KP(0, 1000, Desc(1, 0, 0)), KP(0, 500, Desc(2, 0, 0)) >>
    [] f = 9 -> \* x mapped to y with factor 1002
         << KP(0, 0, Desc(0, 0, 0)), KP(0, 1002, Desc(1, 0, 0)), KP(0, 501, Desc(2, 0, 0)) >>
    [] f = 10 -> \* five features inside RegionA
         << KP(1, 2, Desc(0, 0, 0)), KP(3, 2, Desc(1, 0, 0)), KP(2, 3, Desc(2, 0, 0)),
            KP(2, 1, Desc(3, 0, 0)), KP(2, 2, Desc(4, 0, 0)) >>
    [] f = 11 -> \* two features and one at distance 2 in the third float
         << KP(1, 2, Desc(0, 0, 0)), KP(3, 2, Desc(1, 0, 0)), KP(2, 3, Desc(2, 0, 2)) >>
    [] f = 12 -> \* two features and one at distance 3 in the third float
         << KP(1, 2, Desc(0, 0, 0)), KP(3, 2, Desc(1, 0, 0)), KP(2, 3, Desc(2, 0, 3)) >>
    [] f = 13 -> \* matches of decreasing distance, more than the buffer holds
         << KP(1, 2, Desc(0, 0, 1)), KP(3, 2, Desc(1, 0, 1)), KP(2, 3, Desc(2, 0, 1)),
            KP(1, 2, Desc(0, 0, 0)), KP(3, 2, Desc(1, 0, 0)) >>
    [] f = 14 -> \* features of both regions
         << KP(1, 2, Desc(0, 0, 0)), KP(3, 2, Desc(1, 0, 0)), KP(2, 3, Desc(2, 0, 0)),
            KP(11, 2, Desc(3, 0, 0)), KP(13, 2, Desc(4, 0, 0)), KP(12, 3, Desc(5, 0, 0)) >>
    [] f = 15 -> \* the features of RegionB at distance 1
         << KP(11, 2, Desc(3, 0, 1)), KP(13, 2, Desc(4, 0, 1)), KP(12, 3, Desc(5, 0, 1)) >>
    [] f = 16 -> \* one feature only
         << KP(1, 2, Desc(0, 0, 0)) >>
    [] f = 17 -> \* three features inside RegionA, two of them at distance 20
         << KP(1, 2, Desc(0, 0, 0)), KP(3, 2, Desc(0, -20, 0)), KP(2, 3, Desc(2, 0, 0)) >>
    [] f = 18 -> \* a feature at distance 8 from the first of frame 17, then its first two
         << KP(1, 2, Desc(0, 6, 2)), KP(1, 2, Desc(0, 0, 0)), KP(3, 2, Desc(0, -20, 0)) >>
    [] f = 19 -> \* twice the first feature at distance 3, then the other two
         << KP(1, 2, Desc(0, 0, 3)), KP(1, 1, Desc(0, 0, 3)),
            KP(3, 2, Desc(1, 0, 0)), KP(2, 3, Desc(2, 0, 0)) >>
    [] f = 20 -> \* two features, the third at distance 2 and again at distance 3
         << KP(1, 2, Desc(0, 0, 0)), KP(3, 2, Desc(1, 0, 0)),
            KP(2, 3, Desc(2, 0, 2)), KP(2, 2, Desc(2, 0, 3)) >>
    [] f = 21 -> \* the first feature at distance 2 and the other two
         << KP(1, 2, Desc(0, 0, 2)), KP(3, 2, Desc(1, 0, 0)), KP(2, 3, Desc(2, 0, 0)) >>
    [] OTHER -> << >>

\* What the region detector finds (the same two ellipses in every captured
\* frame, none before the first capture).
FrameRegions(f) == IF f = 0 THEN << >> ELSE << RegionA, RegionB >>

\* What freed memory can hold in place of a keypoint.
FreedKeypoint == KP(99, 99, Desc(0, 0, 0))

\* What a read outside a buffer can yield: a float and a keypoint.
Junk0 == [f |-> 0, kp |-> ZeroKeypoint]
Junk == {Junk0, [f |-> 3, kp |-> KP(2, 3, Desc(2, 0, 3))]}

\* The points handed to transform_point and untransform_point.
TestPoints == { <<0, 0>>, <<3, 2>> }

\* The ids the caller passes.
AugmentationIds == 0..(MAR_MAX_NUMBER_OF_AUGMENTATIONS - 1)

\* The error codes a failing camera update returns (mar_v4l2_mmap_camera_update).
CameraUpdateErrors ==
  {MAR_ERROR_INTERRUPTED, MAR_ERROR_DEVICE_SELECT, MAR_ERROR_CAMERA_TIMEOUT, MAR_ERROR_AGAIN}

\* ------------------------------------------------------------ state
VARIABLES
  mar_augment_initialized,        \* char mar_augment_initialized
  camera_id,                      \* mar_camera_id camera_id
  mar_run_augmentation,           \* char mar_run_augmentation
  mar_mser_calculated_this_frame, \* char mar_mser_calculated_this_frame
  mar_mser_regions,               \* mar_mser_regions[0 .. mar_mser_num_regions)
  mar_sift_calculated_this_frame, \* char mar_sift_calculated_this_frame
  mar_sift_keypoints,             \* mar_sift_keypoints[0 .. mar_sift_num_keypoints)
  mar_number_of_augmentations,    \* int mar_number_of_augmentations
  mar_augmentation_initialized,   \* char mar_augmentation_initialized[]
  mar_augmentations,              \* mar_augmentation mar_augmentations[]
  mar_augmentation_successful,    \* mar_error_code mar_augmentation_successful[]
  mar_cameras,                    \* mar_cameras[].camera # 0
  frame_buffer,                   \* the frame in the camera's frame buffer
  last,                           \* the last call that changed any of the above
  direct                          \* a call of one of the file's private functions

\* the state of the program
prog == << mar_augment_initialized, camera_id, mar_run_augmentation,
           mar_mser_calculated_this_frame, mar_mser_regions,
           mar_sift_calculated_this_frame, mar_sift_keypoints,
           mar_number_of_augmentations, mar_augmentation_initialized,
           mar_augmentations, mar_augmentation_successful, mar_cameras, frame_buffer >>

vars == << prog, last, direct >>

\* the registry and everything it owns
registry == << mar_number_of_augmentations, mar_augmentation_initialized,
               mar_augmentations, mar_augmentation_successful >>
\* the cached detector results
caches == << mar_mser_calculated_this_frame, mar_mser_regions,
             mar_sift_calculated_this_frame, mar_sift_keypoints >>
\* the camera layer
camera == << mar_cameras, frame_buffer >>

\* A zero-initialised mar_augmentation (static storage).
ZeroAugmentation ==
  [mser |-> ZeroMser,
   transform |-> ZeroMat3,
   transform_inverse |-> ZeroMat3,
   initial_keypoints |-> [l \in 1..MAR_MAX_NUMBER_OF_AUGMENTATION_KEYPOINTS |-> ZeroKeypoint],
   num_initial_keypoints |-> 0,
   new_keypoint_cursor |-> 0,
   potential_keypoints |-> [l \in 1..MAR_MAX_NUMBER_OF_AUGMENTATION_KEYPOINTS |-> ZeroKeypoint],
   num_potential_keypoints |-> 0]

NoTraces == [i \in AugmentationIds |-> NoTrace]

\* The record of a call: op the function, id the augmentation id it took or
\* produced, code the value it returned, trace the locals of
\* mar_augment_update per augmentation.
Call(op, id, code) == [op |-> op, id |-> id, code |-> code, trace |-> NoTraces]

\* last is a history variable: it records a call only when the call changed
\* the state of the program (a call that changes nothing is a stuttering step;
\* what it returns is given by the <function>_result operators).
Record(call) ==
  /\ last' = IF prog' = prog THEN last ELSE call
  /\ UNCHANGED direct

\* direct holds the arguments of a call of a private function (MAR_PRIVATE,
\* reached from the public functions only) and, once it has returned, its
\* result; no such call is under way when the public interface is exercised.
NoDirect == [fn |-> "none", args |-> << >>, returned |-> FALSE, result |-> << >>]

InitProgram ==
  /\ mar_augment_initialized = FALSE
  /\ camera_id = MAR_CAM_NO_CAMERA
  /\ mar_run_augmentation = FALSE
  /\ mar_mser_calculated_this_frame = FALSE
  /\ mar_mser_regions = << >>
  /\ mar_sift_calculated_this_frame = FALSE
  /\ mar_sift_keypoints = << >>
  /\ mar_number_of_augmentations = 0
  /\ mar_augmentation_initialized = [i \in AugmentationIds |-> FALSE]
  /\ mar_augmentations = [i \in AugmentationIds |-> ZeroAugmentation]
  /\ mar_augmentation_successful = [i \in AugmentationIds |-> MAR_ERROR_NONE]
  /\ mar_cameras = [c \in 0..(MAR_CAM_MAX_NUM_CAMERAS - 1) |-> FALSE]
  /\ frame_buffer = 0
  /\ last = Call("none", MAR_NO_AUGMENTATION, MAR_ERROR_NONE)

Init == InitProgram /\ direct = NoDirect

\* ------------------------------------------------------------ init and free
\* mar_camera_new: "Check for an empty camera"
FreeCameraSlots == {c \in DOMAIN mar_cameras : ~mar_cameras[c]}
FirstFreeCamera == CHOOSE c \in FreeCameraSlots : \A d \in FreeCameraSlots : c <= d

\* The value mar_augment_init returns.  outcome names the first stage that
\* fails: reading the configuration file, creating the camera device, the
\* MSER filter, the SIFT filter; "ok" when none does.
mar_augment_init_result(outcome) ==
  IF mar_augment_initialized THEN MAR_ERROR_AUGMENTATION_ALREADY_INITIALIZED
  ELSE IF outcome = "config" THEN MAR_ERROR_READING_CONFIG
  ELSE IF FreeCameraSlots = {} THEN MAR_ERROR_NO_CAMERAS_AVAILABLE
  ELSE IF outcome = "camera" THEN MAR_ERROR_DEVICE_OPEN
  ELSE IF outcome \in {"mser", "sift"} THEN MAR_ERROR_MALLOC
  ELSE MAR_ERROR_NONE

\* mar_augment_init without the mar_camera_free of lines 141 and 168: the
\* camera opened stays in its slot when a filter cannot be created.
mar_augment_init_KeepCamera(outcome) ==
  LET code == mar_augment_init_result(outcome)
      camera_tried == /\ ~mar_augment_initialized
                      /\ outcome # "config"
                      /\ FreeCameraSlots # {}
  IN  /\ camera_id' = IF camera_tried THEN FirstFreeCamera ELSE camera_id
      /\ mar_cameras' = IF camera_tried /\ outcome # "camera"
                        THEN [mar_cameras EXCEPT ![FirstFreeCamera] = TRUE]
                        ELSE mar_cameras
      /\ mar_augment_initialized' = (mar_augment_initialized \/ code = MAR_ERROR_NONE)
      /\ UNCHANGED << mar_run_augmentation, caches, registry, frame_buffer >>
      /\ Record(Call("mar_augment_init", MAR_NO_AUGMENTATION, code))

\* mar_augment_init
mar_augment_init(outcome) ==
  LET code == mar_augment_init_result(outcome)
      \* mar_camera_new was called and found a slot: it stores the id
      \* before it opens the device
      camera_tried == /\ ~mar_augment_initialized
                      /\ outcome # "config"
                      /\ FreeCameraSlots # {}
  IN  /\ camera_id' = IF camera_tried THEN FirstFreeCamera ELSE camera_id
      /\ mar_cameras' = IF code = MAR_ERROR_NONE
                        THEN [mar_cameras EXCEPT ![FirstFreeCamera] = TRUE]
                        ELSE mar_cameras
      /\ mar_augment_initialized' = (mar_augment_initialized \/ code = MAR_ERROR_NONE)
      /\ UNCHANGED << mar_run_augmentation, caches, registry, frame_buffer >>
      /\ Record(Call("mar_augment_init", MAR_NO_AUGMENTATION, code))

\* mar_augment_free_augmentation applied to the liveness array and the count
FreeOne(st, id) ==
  IF st.initialized[id]
  THEN [initialized |-> [st.initialized EXCEPT ![id] = FALSE], number |-> st.number - 1]
  ELSE st

RECURSIVE FreeAll(_, _)
FreeAll(st, i) ==
  IF i >= MAR_MAX_NUMBER_OF_AUGMENTATIONS THEN st ELSE FreeAll(FreeOne(st, i), i + 1)

\* The value mar_augment_free returns (the camera is assumed to close).
mar_augment_free_result == MAR_ERROR_NONE

\* What the freed detector buffers hold afterwards, to which
\* mar_sift_keypoints and mar_mser_regions still point: the old content or junk.
Freed(keypoints, regions) ==
  { [keypoints |-> keypoints, regions |-> regions],
    [keypoints |-> [j \in DOMAIN keypoints |-> FreedKeypoint],
     regions |-> [j \in DOMAIN regions |-> ZeroMser]] }

\* mar_augment_free
mar_augment_free ==
  /\ IF mar_augment_initialized
     THEN \E st \in {FreeAll([initialized |-> mar_augmentation_initialized,
                              number |-> mar_number_of_augmentations], 0)},
             freed \in Freed(mar_sift_keypoints, mar_mser_regions) :
              /\ mar_augment_initialized' = FALSE
              /\ mar_run_augmentation' = FALSE
              /\ mar_augmentation_initialized' = st.initialized
              /\ mar_number_of_augmentations' = st.number
              /\ mar_sift_keypoints' = freed.keypoints
              /\ mar_mser_regions' = freed.regions
              /\ mar_cameras' = [mar_cameras EXCEPT ![camera_id] = FALSE]
              \* the camera's frame buffer goes with the camera
              /\ frame_buffer' = 0
              /\ UNCHANGED << camera_id, mar_mser_calculated_this_frame,
                              mar_sift_calculated_this_frame, mar_augmentations,
                              mar_augmentation_successful >>
     ELSE UNCHANGED prog
  /\ Record(Call("mar_augment_free", MAR_NO_AUGMENTATION, mar_augment_free_result))

\* mar_augment_free_augmentation clearing the status array as well.
mar_augment_free_augmentation_Reset(id) ==
  LET st == FreeOne([initialized |-> mar_augmentation_initialized,
                     number |-> mar_number_of_augmentations], id)
  IN  /\ mar_augmentation_initialized' = st.initialized
      /\ mar_number_of_augmentations' = st.number
      /\ mar_augmentation_successful' = [i \in AugmentationIds |-> MAR_ERROR_NONE]
      /\ UNCHANGED << mar_augment_initialized, camera_id, mar_run_augmentation, caches,
                      mar_augmentations, camera >>
      /\ Record(Call("mar_augment_free_augmentation", id, MAR_ERROR_NONE))

\* mar_augment_free_augmentation (returns nothing)
mar_augment_free_augmentation(id) ==
  LET st == FreeOne([initialized |-> mar_augmentation_initialized,
                     number |-> mar_number_of_augmentations], id)
  IN  /\ mar_augmentation_initialized' = st.initialized
      /\ mar_number_of_augmentations' = st.number
      /\ UNCHANGED << mar_augment_initialized, camera_id, mar_run_augmentation, caches,
                      mar_augmentations, mar_augmentation_successful, camera >>
      /\ Record(Call("mar_augment_free_augmentation", id, MAR_ERROR_NONE))

\* ------------------------------------------------------------ gates
\* The value mar_start_capture and mar_stop_capture return; cam is the
\* camera's answer (the camera itself is outside the model).
mar_capture_result(cam) ==
  IF ~mar_augment_initialized THEN MAR_ERROR_AUGMENTATION_NOT_INITIALIZED ELSE cam

\* mar_start_capture and mar_stop_capture change nothing in the pipeline
mar_start_capture == UNCHANGED vars
mar_stop_capture == UNCHANGED vars

\* The value mar_start_augmentation and mar_stop_augmentation return.
mar_run_augmentation_result ==
  IF ~mar_augment_initialized THEN MAR_ERROR_AUGMENTATION_NOT_INITIALIZED
  ELSE MAR_ERROR_NONE

SetRunAugmentation(op, value) ==
  /\ mar_run_augmentation' =
       IF mar_run_augmentation_result = MAR_ERROR_NONE THEN value ELSE mar_run_augmentation
  /\ UNCHANGED << mar_augment_initialized, camera_id, caches, registry, camera >>
  /\ Record(Call(op, MAR_NO_AUGMENTATION, mar_run_augmentation_result))

mar_start_augmentation == SetRunAugmentation("mar_start_augmentation", TRUE)
mar_stop_augmentation == SetRunAugmentation("mar_stop_augmentation", FALSE)

\* ------------------------------------------------------------ update
\* "Iterate through all possible augmentations" from slot i on.
\* st = [augs, successful, trace]
UpdateOne(st, i, r) ==
  [augs |-> [st.augs EXCEPT ![i] = r.aug],
   successful |-> [st.successful EXCEPT ![i] = r.successful],
   trace |-> [st.trace EXCEPT ![i] = r.trace]]

\* UpdateLoop left at the first augmentation that is not tracked.
RECURSIVE UpdateLoop_StopAtFailure(_, _, _, _)
RECURSIVE UpdateLoop_WhileOk(_, _, _, _)
UpdateLoop_WhileOk(i, keypoints, junk, st) ==
  IF st.successful[i] # MAR_ERROR_NONE THEN st
  ELSE UpdateLoop_StopAtFailure(i + 1, keypoints, junk, st)

UpdateLoop_StopAtFailure(i, keypoints, junk, st) ==
  IF i >= MAR_MAX_NUMBER_OF_AUGMENTATIONS THEN st
  ELSE IF ~mar_augmentation_initialized[i]
  THEN UpdateLoop_StopAtFailure(i + 1, keypoints, junk, st)
  ELSE UpdateLoop_WhileOk(i, keypoints, junk,
                          UpdateOne(st, i, UpdateAugmentation(st.augs[i], keypoints, junk)))

\* UpdateLoop with the frame's keypoints moved to the reference frame of the
\* augmentation that was processed, in place.
RECURSIVE UpdateLoop_InPlace(_, _, _, _)
UpdateLoop_InPlace(i, keypoints, junk, st) ==
  IF i >= MAR_MAX_NUMBER_OF_AUGMENTATIONS THEN st
  ELSE IF ~mar_augmentation_initialized[i] THEN UpdateLoop_InPlace(i + 1, keypoints, junk, st)
  ELSE UpdateLoop_InPlace(i + 1,
                          [j \in DOMAIN keypoints |->
                             [keypoints[j] EXCEPT
                                !.x = UntransformBy(st.augs[i], keypoints[j].x, keypoints[j].y)[1],
                                !.y = UntransformBy(st.augs[i], keypoints[j].x, keypoints[j].y)[2]]],
                          junk,
                          UpdateOne(st, i, UpdateAugmentation(st.augs[i], keypoints, junk)))

\* The loop over the slots of the registry (lines 412-673): a slot that is not
\* tracked ends its iteration with continue.
RECURSIVE UpdateLoop(_, _, _, _)
UpdateLoop(i, keypoints, junk, st) ==
  IF i >= MAR_MAX_NUMBER_OF_AUGMENTATIONS THEN st
  ELSE IF ~mar_augmentation_initialized[i] THEN UpdateLoop(i + 1, keypoints, junk, st)
  ELSE UpdateLoop(i + 1, keypoints, junk,
                  UpdateOne(st, i, UpdateAugmentation(st.augs[i], keypoints, junk)))

UpdateAll(keypoints, junk) ==
  UpdateLoop(0, keypoints, junk,
             [augs |-> mar_augmentations, successful |-> mar_augmentation_successful,
              trace |-> NoTraces])

\* Whether processing a frame read outside x, y, u, v or contained_keypoints,
\* by the values of the locals.
ReadsOutside(trace) ==
  \E i \in AugmentationIds :
    \/ trace[i].matched_keypoints > MAR_MAX_NUM_OF_MATCHED_KEYPOINTS
    \/ trace[i].grow_reads > trace[i].grow_patch

\* mar_augment_update_result with a camera error read as success.
mar_augment_update_result_Swallowed(cam) ==
  IF ~mar_augment_initialized THEN MAR_ERROR_AUGMENTATION_NOT_INITIALIZED ELSE MAR_ERROR_NONE

\* The value mar_augment_update returns; cam is what mar_camera_update returns.
mar_augment_update_result(cam) ==
  IF ~mar_augment_initialized THEN MAR_ERROR_AUGMENTATION_NOT_INITIALIZED ELSE cam

\* RunsTracker without the test of mar_run_augmentation.
RunsTracker_Always(code) == code = MAR_ERROR_NONE

\* "Check if any augmentations exists" (line 401): the detector and the
\* tracker run when the camera delivered a frame and augmentation is started.
RunsTracker(code) == code = MAR_ERROR_NONE /\ mar_run_augmentation

\* mar_augment_update.  cam is the camera's answer and f the frame it
\* delivers.  A read outside the buffers yields any of the values of Junk.
mar_augment_update(cam, f) ==
  LET code == mar_augment_update_result(cam)
      keypoints == FrameKeypoints(f)
      tracked == RunsTracker(code)
      untracked == [augs |-> mar_augmentations,
                    successful |-> mar_augmentation_successful, trace |-> NoTraces]
  IN  \E r0 \in {IF tracked THEN UpdateAll(keypoints, Junk0) ELSE untracked} :
      \E junk \in IF ReadsOutside(r0.trace) THEN Junk ELSE {Junk0} :
      \E r \in {IF junk = Junk0 THEN r0 ELSE UpdateAll(keypoints, junk)} :
        /\ IF ~mar_augment_initialized THEN UNCHANGED prog
           ELSE
             /\ mar_mser_calculated_this_frame' = FALSE
             /\ frame_buffer' = IF cam = MAR_ERROR_NONE THEN f ELSE frame_buffer
             /\ mar_sift_keypoints' = IF tracked THEN keypoints ELSE mar_sift_keypoints
             /\ mar_sift_calculated_this_frame' = tracked
             /\ mar_augmentations' = r.augs
             /\ mar_augmentation_successful' = r.successful
             /\ UNCHANGED << mar_augment_initialized, camera_id, mar_run_augmentation,
                             mar_mser_regions, mar_number_of_augmentations,
                             mar_augmentation_initialized, mar_cameras >>
        /\ Record([op |-> "mar_augment_update", id |-> MAR_NO_AUGMENTATION,
                   code |-> code, trace |-> r.trace])

\* ------------------------------------------------------------ accessors
\* The checks the accessors with an id begin with.
CheckId(id) ==
  IF ~mar_augment_initialized THEN MAR_ERROR_AUGMENTATION_NOT_INITIALIZED
  ELSE IF ~mar_augmentation_initialized[id] THEN MAR_ERROR_AUGMENTATION_ID_DOES_NOT_EXIST
  ELSE MAR_ERROR_NONE

\* mat[0..15] filled row by row
TransformationOut_RowMajor(t) ==
  << t[1][1], t[1][2], Q(0), t[1][3],
     t[2][1], t[2][2], Q(0), t[2][3],
     Q(0), Q(0), Q(1), Q(0),
     t[3][1], t[3][2], Q(0), t[3][3] >>

\* mat[0..15] as mar_augment_get_transformation fills it (position c + 1 holds mat[c])
TransformationOut(t) ==
  << t[1][1], t[2][1], Q(0), t[3][1],
     t[1][2], t[2][2], Q(0), t[3][2],
     Q(0), Q(0), Q(1), Q(0),
     t[1][3], t[2][3], Q(0), t[3][3] >>

\* mar_augment_get_transformation: the value returned and mat (<< >>: not written)
mar_augment_get_transformation_result(id) ==
  [code |-> CheckId(id),
   mat |-> IF CheckId(id) = MAR_ERROR_NONE
           THEN TransformationOut(mar_augmentations[id].transform) ELSE << >>]
mar_augment_get_transformation(id) == UNCHANGED vars

\* mar_augmentation_get_error: the value returned
mar_augmentation_get_error_result(id) == mar_augmentation_successful[id]
mar_augmentation_get_error(id) == UNCHANGED vars

\* mar_augment_transform_point: the value returned and (tx, ty)
mar_augment_transform_point_result(id, x, y) ==
  [code |-> CheckId(id),
   t |-> IF CheckId(id) = MAR_ERROR_NONE
         THEN LET r == TransformBy(mar_augmentations[id], Q(x), Q(y)) IN << r[1], r[2] >>
         ELSE << >>]
mar_augment_transform_point(id, x, y) == UNCHANGED vars

\* mar_augment_untransform_point: the value returned and (tx, ty)
mar_augment_untransform_point_result(id, x, y) ==
  [code |-> CheckId(id),
   t |-> IF CheckId(id) = MAR_ERROR_NONE
         THEN LET r == UntransformBy(mar_augmentations[id], Q(x), Q(y)) IN << r[1], r[2] >>
         ELSE << >>]
mar_augment_untransform_point(id, x, y) == UNCHANGED vars

\* mar_augment_get_camera: the id returned
mar_augment_get_camera_result ==
  IF ~mar_augment_initialized THEN MAR_CAM_NO_CAMERA ELSE camera_id
mar_augment_get_camera == UNCHANGED vars

\* ------------------------------------------------------------ detectors
\* The value mar_augment_get_regions and mar_augment_get_keypoints return
\* (the detectors are assumed not to run out of memory).
mar_augment_get_result ==
  IF ~mar_augment_initialized THEN MAR_ERROR_AUGMENTATION_NOT_INITIALIZED
  ELSE MAR_ERROR_NONE

\* The regions mar_augment_get_regions hands out on an initialized pipeline.
RegionsNow ==
  IF mar_mser_calculated_this_frame THEN mar_mser_regions ELSE FrameRegions(frame_buffer)

\* mar_augment_get_regions
mar_augment_get_regions ==
  /\ IF mar_augment_initialized
     THEN /\ mar_mser_regions' = RegionsNow
          /\ mar_mser_calculated_this_frame' = TRUE
          /\ UNCHANGED << mar_augment_initialized, camera_id, mar_run_augmentation,
                          mar_sift_calculated_this_frame, mar_sift_keypoints,
                          registry, camera >>
     ELSE UNCHANGED prog
  /\ Record(Call("mar_augment_get_regions", MAR_NO_AUGMENTATION, mar_augment_get_result))

\* The keypoints mar_augment_get_keypoints hands out on an initialized pipeline.
KeypointsNow ==
  IF mar_sift_calculated_this_frame THEN mar_sift_keypoints
  ELSE FrameKeypoints(frame_buffer)

\* mar_augment_get_keypoints
mar_augment_get_keypoints ==
  /\ IF mar_augment_initialized
     THEN /\ mar_sift_keypoints' = KeypointsNow
          /\ mar_sift_calculated_this_frame' = TRUE
          /\ UNCHANGED << mar_augment_initialized, camera_id, mar_run_augmentation,
                          mar_mser_calculated_this_frame, mar_mser_regions,
                          registry, camera >>
     ELSE UNCHANGED prog
  /\ Record(Call("mar_augment_get_keypoints", MAR_NO_AUGMENTATION, mar_augment_get_result))

\* ------------------------------------------------------------ create
\* SeedLoop with num_keypoints incremented without the cap.
RECURSIVE SeedLoop_NoCap(_, _, _, _)
SeedLoop_NoCap(keypoints, j, region, st) ==
  IF j > Len(keypoints) THEN st
  ELSE
    LET kp == keypoints[j]
        scale == Rat(region.ellipse_a + region.ellipse_b, 2)
        seeded == [kp EXCEPT !.x = RDiv(RSub(@, Q(region.ellipse_x)), scale),
                             !.y = RDiv(RSub(@, Q(region.ellipse_y)), scale)]
    IN  IF is_point_in_ellipse(kp.x, kp.y, region.ellipse_x, region.ellipse_y,
                               region.ellipse_a, region.ellipse_b, region.ellipse_angle)
        THEN SeedLoop_NoCap(keypoints, j + 1, region,
               [aug |-> [st.aug EXCEPT
                           !.initial_keypoints[st.aug.new_keypoint_cursor + 1] = seeded,
                           !.new_keypoint_cursor =
                              (@ + 1) % MAR_MAX_NUMBER_OF_AUGMENTATION_KEYPOINTS],
                num_keypoints |-> st.num_keypoints + 1])
        ELSE SeedLoop_NoCap(keypoints, j + 1, region, st)

\* SeedLoop storing the image coordinates of the keypoints as they are.
RECURSIVE SeedLoop_Raw(_, _, _, _)
SeedLoop_Raw(keypoints, j, region, st) ==
  IF j > Len(keypoints) THEN st
  ELSE IF is_point_in_ellipse(keypoints[j].x, keypoints[j].y, region.ellipse_x,
                              region.ellipse_y, region.ellipse_a, region.ellipse_b,
                              region.ellipse_angle)
  THEN SeedLoop_Raw(keypoints, j + 1, region,
         [aug |-> [st.aug EXCEPT
                     !.initial_keypoints[st.aug.new_keypoint_cursor + 1] = keypoints[j],
                     !.new_keypoint_cursor =
                        (@ + 1) % MAR_MAX_NUMBER_OF_AUGMENTATION_KEYPOINTS],
          num_keypoints |->
            IF st.num_keypoints >= MAR_MAX_NUMBER_OF_AUGMENTATION_KEYPOINTS
            THEN MAR_MAX_NUMBER_OF_AUGMENTATION_KEYPOINTS
            ELSE st.num_keypoints + 1])
  ELSE SeedLoop_Raw(keypoints, j + 1, region, st)

\* "Copy the keypoints within the ellipse to a buffer" from keypoint j on
\* (1-based).  st = [aug, num_keypoints]
RECURSIVE SeedLoop(_, _, _, _)
SeedLoop(keypoints, j, region, st) ==
  IF j > Len(keypoints) THEN st
  ELSE
    LET kp == keypoints[j]
        scale == Rat(region.ellipse_a + region.ellipse_b, 2)
        seeded == [kp EXCEPT !.x = RDiv(RSub(@, Q(region.ellipse_x)), scale),
                             !.y = RDiv(RSub(@, Q(region.ellipse_y)), scale)]
    IN  IF is_point_in_ellipse(kp.x, kp.y, region.ellipse_x, region.ellipse_y,
                               region.ellipse_a, region.ellipse_b, region.ellipse_angle)
        THEN SeedLoop(keypoints, j + 1, region,
               [aug |-> [st.aug EXCEPT
                           !.initial_keypoints[st.aug.new_keypoint_cursor + 1] = seeded,
                           !.new_keypoint_cursor =
                              (@ + 1) % MAR_MAX_NUMBER_OF_AUGMENTATION_KEYPOINTS],
                num_keypoints |->
                  IF st.num_keypoints >= MAR_MAX_NUMBER_OF_AUGMENTATION_KEYPOINTS
                  THEN MAR_MAX_NUMBER_OF_AUGMENTATION_KEYPOINTS
                  ELSE st.num_keypoints + 1])
        ELSE SeedLoop(keypoints, j + 1, region, st)

\* FirstFreeSlot scanning from the top of the array.
FirstFreeSlot_Highest ==
  CHOOSE i \in {k \in AugmentationIds : ~mar_augmentation_initialized[k]} :
    \A j \in {k \in AugmentationIds : ~mar_augmentation_initialized[k]} : i >= j

\* "Find a new spot for the augmentation"
FreeSlots == {i \in AugmentationIds : ~mar_augmentation_initialized[i]}
FirstFreeSlot == CHOOSE i \in FreeSlots : \A j \in FreeSlots : i <= j

\* The slot after lines 759-780 have run on it for the region.
Seeded(region) ==
  LET st == SeedLoop(KeypointsNow, 1, region,
                     [aug |-> [mar_augmentations[FirstFreeSlot] EXCEPT
                                 !.mser = region, !.new_keypoint_cursor = 0],
                      num_keypoints |-> 0])
  IN  [st.aug EXCEPT !.num_initial_keypoints = st.num_keypoints]

\* "Check if enough keypoints exist to create an augmentation"
EnoughKeypoints(num_keypoints) == ~(num_keypoints < MAR_MINIMUM_AUGMENTATION_KEYPOINTS)

\* mar_augment_new_augmentation: the value returned and *id (MAR_NO_AUGMENTATION
\* stands for an id that is not written)
mar_augment_new_augmentation_result(region) ==
  IF ~mar_augment_initialized
  THEN [code |-> MAR_ERROR_AUGMENTATION_NOT_INITIALIZED, id |-> MAR_NO_AUGMENTATION]
  ELSE IF FreeSlots = {}
  THEN [code |-> MAR_ERROR_NO_AUGMENTATION_RESOURCES_AVAILABLE, id |-> MAR_NO_AUGMENTATION]
  ELSE IF ~EnoughKeypoints(Seeded(region).num_initial_keypoints)
  THEN [code |-> MAR_ERROR_TOO_FEW_KEYPOINTS, id |-> MAR_NO_AUGMENTATION]
  ELSE [code |-> MAR_ERROR_NONE, id |-> FirstFreeSlot]

\* mar_augment_new_augmentation with the slot claimed before the keypoints are
\* counted.
mar_augment_new_augmentation_ClaimFirst(region) ==
  LET r == mar_augment_new_augmentation_result(region)
  IN  /\ IF mar_augment_initialized /\ FreeSlots # {}
         THEN LET i == FirstFreeSlot
                  aug == Seeded(region)
              IN  /\ mar_sift_keypoints' = KeypointsNow
                  /\ mar_sift_calculated_this_frame' = TRUE
                  /\ IF r.code = MAR_ERROR_NONE
                     THEN /\ mar_augmentations' =
                               [mar_augmentations EXCEPT ![i] =
                                  [aug EXCEPT !.transform = ZeroMat3,
                                              \* pinv of the zero matrix
                                              !.transform_inverse = ZeroMat3]]
                          /\ mar_number_of_augmentations' = mar_number_of_augmentations + 1
                          /\ mar_augmentation_initialized' =
                               [mar_augmentation_initialized EXCEPT ![i] = TRUE]
                     ELSE /\ mar_augmentations' = [mar_augmentations EXCEPT ![i] = aug]
                          /\ mar_number_of_augmentations' = mar_number_of_augmentations + 1
                          /\ mar_augmentation_initialized' =
                               [mar_augmentation_initialized EXCEPT ![i] = TRUE]
                  /\ UNCHANGED << mar_augment_initialized, camera_id, mar_run_augmentation,
                                  mar_mser_calculated_this_frame, mar_mser_regions,
                                  mar_augmentation_successful, camera >>
         ELSE UNCHANGED prog
      /\ Record(Call("mar_augment_new_augmentation", r.id, r.code))

\* mar_augment_new_augmentation
mar_augment_new_augmentation(region) ==
  LET r == mar_augment_new_augmentation_result(region)
  IN  /\ IF mar_augment_initialized /\ FreeSlots # {}
         THEN LET i == FirstFreeSlot
                  aug == Seeded(region)
              IN  /\ mar_sift_keypoints' = KeypointsNow
                  /\ mar_sift_calculated_this_frame' = TRUE
                  /\ IF r.code = MAR_ERROR_NONE
                     THEN /\ mar_augmentations' =
                               [mar_augmentations EXCEPT ![i] =
                                  [aug EXCEPT !.transform = ZeroMat3,
                                              \* pinv of the zero matrix
                                              !.transform_inverse = ZeroMat3]]
                          /\ mar_number_of_augmentations' = mar_number_of_augmentations + 1
                          /\ mar_augmentation_initialized' =
                               [mar_augmentation_initialized EXCEPT ![i] = TRUE]
                     ELSE /\ mar_augmentations' = [mar_augmentations EXCEPT ![i] = aug]
                          /\ UNCHANGED << mar_number_of_augmentations,
                                          mar_augmentation_initialized >>
                  /\ UNCHANGED << mar_augment_initialized, camera_id, mar_run_augmentation,
                                  mar_mser_calculated_this_frame, mar_mser_regions,
                                  mar_augmentation_successful, camera >>
         ELSE UNCHANGED prog
      /\ Record(Call("mar_augment_new_augmentation", r.id, r.code))

\* ------------------------------------------------------------ specification
Next ==
  \/ \E outcome \in {"ok", "config", "camera", "mser", "sift"} : mar_augment_init(outcome)
  \/ mar_augment_free
  \/ mar_start_capture
  \/ mar_stop_capture
  \/ mar_start_augmentation
  \/ mar_stop_augmentation
  \/ \E f \in 1..NumFrames : mar_augment_update(MAR_ERROR_NONE, f)
  \/ \E cam \in CameraUpdateErrors : mar_augment_update(cam, frame_buffer)
  \/ \E id \in AugmentationIds : mar_augment_get_transformation(id)
  \/ \E id \in AugmentationIds : mar_augmentation_get_error(id)
  \/ \E id \in AugmentationIds, p \in TestPoints : mar_augment_transform_point(id, p[1], p[2])
  \/ \E id \in AugmentationIds, p \in TestPoints : mar_augment_untransform_point(id, p[1], p[2])
  \/ mar_augment_get_camera
  \/ mar_augment_get_regions
  \/ mar_augment_get_keypoints
  \/ mar_augment_new_augmentation(RegionA)
  \/ \E id \in AugmentationIds : mar_augment_free_augmentation(id)

Spec == Init /\ [][Next]_vars

\* The tracker alone: the pipeline is brought up, one augmentation is created
\* and frames are tracked.
TrackNext ==
  \/ mar_augment_init("ok")
  \/ mar_start_augmentation
  \/ \E f \in TrackFrames : mar_augment_update(MAR_ERROR_NONE, f)
  \/ \E region \in Regions :
       mar_number_of_augmentations = 0 /\ mar_augment_new_augmentation(region)
  \/ \E id \in AugmentationIds : mar_augment_get_transformation(id)
  \/ \E id \in AugmentationIds : mar_augmentation_get_error(id)
  \/ \E id \in AugmentationIds, p \in TestPoints : mar_augment_transform_point(id, p[1], p[2])
  \/ \E id \in AugmentationIds, p \in TestPoints : mar_augment_untransform_point(id, p[1], p[2])

TrackSpec == Init /\ [][TrackNext]_vars

\* The reference set alone: augmentations are created and destroyed, one at a
\* time, and frames with more keypoints than the buffers hold are tracked.
GrowNext ==
  \/ mar_augment_init("ok")
  \/ mar_start_augmentation
  \/ \E f \in GrowFrames : mar_augment_update(MAR_ERROR_NONE, f)
  \/ \E region \in Regions :
       mar_number_of_augmentations = 0 /\ mar_augment_new_augmentation(region)
  \/ \E id \in AugmentationIds : mar_augment_free_augmentation(id)

GrowSpec == Init /\ [][GrowNext]_vars

\* Two augmentations with different references tracked in the same frames.
PairNext ==
  \/ mar_augment_init("ok")
  \/ mar_start_augmentation
  \/ \E f \in PairFrames : mar_augment_update(MAR_ERROR_NONE, f)
  \/ mar_augment_new_augmentation(RegionA)

PairSpec == Init /\ [][PairNext]_vars

\* The registry with its slots in use: augmentations are created in RegionA
\* and destroyed in any order while frames are tracked and lost.
OwnerNext ==
  \/ mar_augment_init("ok")
  \/ mar_start_augmentation
  \/ \E f \in OwnerFrames : mar_augment_update(MAR_ERROR_NONE, f)
  \/ mar_augment_new_augmentation(RegionA)
  \/ \E id \in AugmentationIds : mar_augment_free_augmentation(id)

OwnerSpec == Init /\ [][OwnerNext]_vars

\* Calls with an id past the end of the arrays.  mar_augmentation_id is an
\* unsigned char and no function compares the id with
\* MAR_MAX_NUMBER_OF_AUGMENTATIONS, so mar_augmentation_initialized[id] and
\* mar_augmentation_successful[id] are read behind the arrays: the value found
\* there is whatever the build placed at that address.
OutsideIds == {MAR_NO_AUGMENTATION}
\* Calls with an outside id take the count at most this far below zero.
MaxBelowZero == 1

\* mar_augment_free_augmentation with an outside id; found: the byte read at
\* mar_augmentation_initialized[id] is not 0.  The byte is then cleared and
\* the count decremented.
mar_augment_free_augmentation_outside(id, found) ==
  /\ found => mar_number_of_augmentations > 0 - MaxBelowZero
  /\ mar_number_of_augmentations' =
       IF found THEN mar_number_of_augmentations - 1 ELSE mar_number_of_augmentations
  /\ UNCHANGED << mar_augment_initialized, camera_id, mar_run_augmentation, caches,
                  mar_augmentation_initialized, mar_augmentations,
                  mar_augmentation_successful, camera >>
  /\ Record(Call("mar_augment_free_augmentation", id, MAR_ERROR_NONE))

\* mar_augmentation_get_error with an outside id: the value returned is the
\* int found at mar_augmentation_successful[id]
mar_augmentation_get_error_outside_result(id, found) == found
mar_augmentation_get_error_outside(id, found) == UNCHANGED vars

\* The id-taking calls with ids inside and outside the arrays, on a pipeline
\* with augmentations created in RegionA and tracked.
IdNext ==
  \/ mar_augment_init("ok")
  \/ mar_start_augmentation
  \/ \E f \in OwnerFrames : mar_augment_update(MAR_ERROR_NONE, f)
  \/ mar_augment_new_augmentation(RegionA)
  \/ \E id \in AugmentationIds : mar_augment_free_augmentation(id)
  \/ \E id \in OutsideIds, found \in BOOLEAN :
       mar_augment_free_augmentation_outside(id, found)
  \/ \E id \in OutsideIds, found \in {MAR_ERROR_NONE, MAR_ERROR_TOO_FEW_MATCHING_KEYPOINTS} :
       mar_augmentation_get_error_outside(id, found)

IdSpec == Init /\ [][IdNext]_vars

\* The grow step alone: one augmentation is created in RegionA and tracked in
\* frames whose keypoints become potential keypoints and references.
PromoteNext ==
  \/ mar_augment_init("ok")
  \/ mar_start_augmentation
  \/ \E f \in PromoteFrames : mar_augment_update(MAR_ERROR_NONE, f)
  \/ mar_number_of_augmentations = 0 /\ mar_augment_new_augmentation(RegionA)

PromoteSpec == Init /\ [][PromoteNext]_vars

\* get_best_keypoint_match alone.  The probe and the references differ in the
\* first float of the descriptor only, so the L1 distance of two of them is
\* the distance of these values; MaxReferences bounds the reference sequence.
MaxReferences == 3
MatchProbes == {KP(0, 0, Desc(0, 0, 0)), KP(0, 0, Desc(0, 1, 0))}
MatchReferences == {KP(0, 0, Desc(0, e1, 0)) : e1 \in {0, 2, -2, 6, 7, 9}}
ReferenceSequences == UNION {[1..n -> MatchReferences] : n \in 0..MaxReferences}

MatchInit ==
  /\ InitProgram
  /\ \E k \in MatchProbes, keypoints \in ReferenceSequences :
       direct = [fn |-> "get_best_keypoint_match",
                 args |-> [k |-> k, keypoints |-> keypoints],
                 returned |-> FALSE,
                 result |-> [k |-> -1, best_difference |-> 0]]

get_best_keypoint_match_call ==
  /\ direct.fn = "get_best_keypoint_match"
  /\ ~direct.returned
  /\ direct' = [direct EXCEPT
                  !.returned = TRUE,
                  !.result = get_best_keypoint_match(direct.args.k, direct.args.keypoints,
                                                     Len(direct.args.keypoints))]
  /\ UNCHANGED << prog, last >>

MatchNext == get_best_keypoint_match_call

MatchSpec == MatchInit /\ [][MatchNext]_vars

\* ---------------------------------------------------------------- the fit alone
\* The least-squares fit of mar_augment_update applied to correspondences
\* p -> T p: up to MaxPoints points of a small grid, and three affine maps
\* with a determinant other than zero (a translation, a quarter turn, and a
\* map with shear and unequal scales), as (m00, m01, m10, m11, tx, ty).
MaxPoints == 4
SolvePoints == {[x |-> Q(px), y |-> Q(py)] : px \in 0..2, py \in 0..1}
PointSequences == UNION {[1..n -> SolvePoints] : n \in 3..MaxPoints}
SolveTransforms == { <<1, 0, 0, 1, 3, -2>>, <<0, -1, 1, 0, 0, 0>>, <<2, 1, 0, 3, -1, 4>> }

\* the image of point p under T: u = m00 x + m01 y + tx, v = m10 x + m11 y + ty
ImageU(T, p) == RAdd(RAdd(RMul(Q(T[1]), p.x), RMul(Q(T[2]), p.y)), Q(T[5]))
ImageV(T, p) == RAdd(RAdd(RMul(Q(T[3]), p.x), RMul(Q(T[4]), p.y)), Q(T[6]))

SolveInit ==
  /\ InitProgram
  /\ \E keypoints \in PointSequences, T \in SolveTransforms :
       direct = [fn |-> "pinv",
                 args |-> [keypoints |-> keypoints, T |-> T],
                 returned |-> FALSE,
                 result |-> << Q(0), Q(0), Q(0), Q(0), Q(0), Q(0) >>]

\* lines 548-576: A and b filled from x, y, u, v, then T = pinv(A) * b
pinv_call ==
  /\ direct.fn = "pinv"
  /\ ~direct.returned
  /\ direct' = [direct EXCEPT
                  !.returned = TRUE,
                  !.result = SolveAffine(
                     [j \in DOMAIN direct.args.keypoints |-> direct.args.keypoints[j].x],
                     [j \in DOMAIN direct.args.keypoints |-> direct.args.keypoints[j].y],
                     [j \in DOMAIN direct.args.keypoints |->
                        ImageU(direct.args.T, direct.args.keypoints[j])],
                     [j \in DOMAIN direct.args.keypoints |->
                        ImageV(direct.args.T, direct.args.keypoints[j])])]
  /\ UNCHANGED << prog, last >>

SolveNext == pinv_call

SolveSpec == SolveInit /\ [][SolveNext]_vars

\* ------------------------------------------------- the ellipse test alone
\* is_point_in_ellipse applied to points of a grid of fifths, which holds
\* interior, exterior and boundary points of every ellipse below: centred at
\* the origin or off it, a circle, major axis a and major axis b, turned by
\* -atan(3 / 4), 0 or atan(3 / 4).
MaxFifths == 20
EllipsePoints == {Rat(n, 5) : n \in {m \in -MaxFifths..MaxFifths : m % 4 = 0}}
EllipseCentres == {<<0, 0>>, <<4, 0>>}
EllipseAxes == {<<2, 1>>, <<1, 2>>, <<1, 1>>}
EllipseAngles == {-1, 0, 1}

EllipseInit ==
  /\ InitProgram
  /\ \E px \in EllipsePoints, py \in EllipsePoints, c \in EllipseCentres,
        ab \in EllipseAxes, angle \in EllipseAngles :
       direct = [fn |-> "is_point_in_ellipse",
                 args |-> [px |-> px, py |-> py, ellipse_x |-> c[1], ellipse_y |-> c[2],
                           ellipse_a |-> ab[1], ellipse_b |-> ab[2],
                           ellipse_angle |-> angle],
                 returned |-> FALSE,
                 result |-> FALSE]

is_point_in_ellipse_call ==
  /\ direct.fn = "is_point_in_ellipse"
  /\ ~direct.returned
  /\ direct' = [direct EXCEPT
                  !.returned = TRUE,
                  !.result = is_point_in_ellipse(direct.args.px, direct.args.py,
                               direct.args.ellipse_x, direct.args.ellipse_y,
                               direct.args.ellipse_a, direct.args.ellipse_b,
                               direct.args.ellipse_angle)]
  /\ UNCHANGED << prog, last >>

EllipseNext == is_point_in_ellipse_call

EllipseSpec == EllipseInit /\ [][EllipseNext]_vars

\* ------------------------------------------------------------ properties
\* The augmentation with this id is live.
Live(i) == mar_augment_initialized /\ mar_augmentation_initialized[i]

\* The state is the one a mar_augment_update left that processed augmentation i.
Tracked(i) == last.op = "mar_augment_update" /\ last.trace[i].processed

\* The step is a call of op that changed the state of the program.
Stepped(op) == prog' # prog /\ last'.op = op

\* untransform_point(transform_point(x, y)) for augmentation i
RoundTrip(i, x, y) ==
  LET t == TransformBy(mar_augmentations[i], Q(x), Q(y))
      o == UntransformBy(mar_augmentations[i], t[1], t[2])
  IN  << o[1], o[2] >>

\* C1: after an update that leaves an augmentation with status
\* MAR_ERROR_NONE, transform * transform_inverse is the identity and
\* untransform_point(transform_point(x, y)) = (x, y).
C1_InverseOfTransform ==
  \A i \in AugmentationIds :
    (Tracked(i) /\ mar_augmentation_successful[i] = MAR_ERROR_NONE) =>
      /\ MatMul3(mar_augmentations[i].transform, mar_augmentations[i].transform_inverse)
           = IdentityMat3
      /\ \A p \in TestPoints : RoundTrip(i, p[1], p[2]) = << Q(p[1]), Q(p[2]) >>

\* An update has left augmentation i with status MAR_ERROR_NONE and a
\* transform that is not the zero matrix.
C1_TrackedOk ==
  \E i \in AugmentationIds :
    /\ Tracked(i)
    /\ mar_augmentation_successful[i] = MAR_ERROR_NONE
    /\ mar_augmentations[i].transform # ZeroMat3

\* C2: for every slot, after any sequence of create, update and destroy
\* calls, 0 <= num_initial_keypoints <= MAR_MAX_NUMBER_OF_AUGMENTATION_KEYPOINTS,
\* 0 <= num_potential_keypoints <= MAR_MAX_NUMBER_OF_AUGMENTATION_KEYPOINTS and
\* new_keypoint_cursor < MAR_MAX_NUMBER_OF_AUGMENTATION_KEYPOINTS.
C2_CountsInRange ==
  \A i \in AugmentationIds :
    /\ mar_augmentations[i].num_initial_keypoints \in
         0..MAR_MAX_NUMBER_OF_AUGMENTATION_KEYPOINTS
    /\ mar_augmentations[i].num_potential_keypoints \in
         0..MAR_MAX_NUMBER_OF_AUGMENTATION_KEYPOINTS
    /\ mar_augmentations[i].new_keypoint_cursor \in
         0..(MAR_MAX_NUMBER_OF_AUGMENTATION_KEYPOINTS - 1)

\* A live augmentation whose reference set was seeded from more in-ellipse
\* keypoints than it holds (the cursor has wrapped) and whose potential list
\* is full after a frame with more candidates than it holds.
C2_BothListsFull ==
  \E i \in AugmentationIds :
    /\ Tracked(i)
    /\ mar_augmentations[i].num_initial_keypoints = MAR_MAX_NUMBER_OF_AUGMENTATION_KEYPOINTS
    /\ mar_augmentations[i].num_potential_keypoints = MAR_MAX_NUMBER_OF_AUGMENTATION_KEYPOINTS
    /\ last.trace[i].grow_patch > MAR_MAX_NUMBER_OF_AUGMENTATION_KEYPOINTS

\* C3: an update that sets an augmentation's status to
\* MAR_ERROR_TOO_FEW_MATCHING_KEYPOINTS leaves its transform as it was before
\* the frame.
C3_FailedUpdateKeepsTransform ==
  [][\A i \in AugmentationIds :
       ( /\ Stepped("mar_augment_update")
         /\ last'.trace[i].processed
         /\ mar_augmentation_successful'[i] = MAR_ERROR_TOO_FEW_MATCHING_KEYPOINTS )
       => mar_augmentations'[i].transform = mar_augmentations[i].transform]_vars

\* An update has rejected a solved fit for an augmentation that holds the
\* transform of an earlier frame.
C3_RejectedAfterSuccess ==
  \E i \in AugmentationIds :
    /\ Tracked(i)
    /\ last.trace[i].solved
    /\ mar_augmentation_successful[i] = MAR_ERROR_TOO_FEW_MATCHING_KEYPOINTS
    /\ mar_augmentations[i].transform # ZeroMat3

\* C4: after mar_augment_free_augmentation(id), transform_point,
\* untransform_point, get_transformation and get_error on that id return
\* MAR_ERROR_AUGMENTATION_ID_DOES_NOT_EXIST until a create reuses the slot.
C4_FreedIdUnknown ==
  \A id \in AugmentationIds :
    (mar_augment_initialized /\ ~mar_augmentation_initialized[id]
       /\ last.op = "mar_augment_free_augmentation" /\ last.id = id) =>
      /\ mar_augment_get_transformation_result(id).code
           = MAR_ERROR_AUGMENTATION_ID_DOES_NOT_EXIST
      /\ \A p \in TestPoints :
           /\ mar_augment_transform_point_result(id, p[1], p[2]).code
                = MAR_ERROR_AUGMENTATION_ID_DOES_NOT_EXIST
           /\ mar_augment_untransform_point_result(id, p[1], p[2]).code
                = MAR_ERROR_AUGMENTATION_ID_DOES_NOT_EXIST
      /\ mar_augmentation_get_error_result(id) = MAR_ERROR_AUGMENTATION_ID_DOES_NOT_EXIST

\* The number of keypoints of the frame in the camera's buffer that lie
\* inside the ellipse of the region.
InEllipse(region) ==
  Cardinality({j \in DOMAIN FrameKeypoints(frame_buffer) :
                 is_point_in_ellipse(FrameKeypoints(frame_buffer)[j].x,
                                     FrameKeypoints(frame_buffer)[j].y,
                                     region.ellipse_x, region.ellipse_y, region.ellipse_a,
                                     region.ellipse_b, region.ellipse_angle)})

\* C5: on an initialized pipeline mar_augment_new_augmentation returns
\* MAR_ERROR_NONE exactly when a slot is free and at least
\* MAR_MINIMUM_AUGMENTATION_KEYPOINTS keypoints of the current frame lie inside
\* the ellipse; with a free slot and fewer it returns MAR_ERROR_TOO_FEW_KEYPOINTS,
\* with no free slot MAR_ERROR_NO_AUGMENTATION_RESOURCES_AVAILABLE.
C5_CreateOutcome ==
  \A region \in Regions :
    mar_augment_initialized =>
      LET code == mar_augment_new_augmentation_result(region).code
          enough == InEllipse(region) >= MAR_MINIMUM_AUGMENTATION_KEYPOINTS
      IN  /\ code = MAR_ERROR_NONE <=> (FreeSlots # {} /\ enough)
          /\ (FreeSlots # {} /\ ~enough) => code = MAR_ERROR_TOO_FEW_KEYPOINTS
          /\ FreeSlots = {} => code = MAR_ERROR_NO_AUGMENTATION_RESOURCES_AVAILABLE

\* C6: a successful create returns the lowest-index empty slot, which becomes
\* live; a live augmentation stays live until mar_augment_free_augmentation of
\* its id or mar_augment_free.
C6_LowestSlotStableIds ==
  [][\A i \in AugmentationIds :
       /\ ( /\ Stepped("mar_augment_new_augmentation")
            /\ last'.code = MAR_ERROR_NONE
            /\ last'.id = i )
          => /\ ~mar_augmentation_initialized[i]
             /\ \A j \in AugmentationIds : j < i => mar_augmentation_initialized[j]
             /\ mar_augmentation_initialized'[i]
             /\ \A j \in AugmentationIds \ {i} :
                  mar_augmentation_initialized'[j] = mar_augmentation_initialized[j]
       /\ (mar_augmentation_initialized[i] /\ ~mar_augmentation_initialized'[i])
          => \/ Stepped("mar_augment_free_augmentation") /\ last'.id = i
             \/ Stepped("mar_augment_free")
       /\ (~mar_augmentation_initialized[i] /\ mar_augmentation_initialized'[i])
          => /\ Stepped("mar_augment_new_augmentation")
             /\ last'.code = MAR_ERROR_NONE
             /\ last'.id = i]_vars

\* Slot 0 has been destroyed and created again while the augmentation in
\* slot 1 stayed live.
C6_SlotReused ==
  /\ last.op = "mar_augment_new_augmentation"
  /\ last.code = MAR_ERROR_NONE
  /\ last.id = 0
  /\ Live(0)
  /\ Live(1)

\* C7: while the pipeline is not initialized every public operation returns
\* MAR_ERROR_AUGMENTATION_NOT_INITIALIZED, mar_augmentation_get_error included.
C7_NotInitializedReported ==
  ~mar_augment_initialized =>
    /\ mar_capture_result(MAR_ERROR_NONE) = MAR_ERROR_AUGMENTATION_NOT_INITIALIZED
    /\ mar_run_augmentation_result = MAR_ERROR_AUGMENTATION_NOT_INITIALIZED
    /\ mar_augment_update_result(MAR_ERROR_NONE) = MAR_ERROR_AUGMENTATION_NOT_INITIALIZED
    /\ mar_augment_get_result = MAR_ERROR_AUGMENTATION_NOT_INITIALIZED
    /\ \A region \in Regions :
         mar_augment_new_augmentation_result(region).code
           = MAR_ERROR_AUGMENTATION_NOT_INITIALIZED
    /\ \A id \in AugmentationIds :
         /\ mar_augment_get_transformation_result(id).code
              = MAR_ERROR_AUGMENTATION_NOT_INITIALIZED
         /\ \A p \in TestPoints :
              /\ mar_augment_transform_point_result(id, p[1], p[2]).code
                   = MAR_ERROR_AUGMENTATION_NOT_INITIALIZED
              /\ mar_augment_untransform_point_result(id, p[1], p[2]).code
                   = MAR_ERROR_AUGMENTATION_NOT_INITIALIZED
         /\ mar_augmentation_get_error_result(id) = MAR_ERROR_AUGMENTATION_NOT_INITIALIZED

\* |m01 + m10| <= 1000 and |m00 - m11| <= 1000 for T = (m00, m01, m10, m11, tx, ty)
WithinLimits(T) ==
  /\ \/ RLess(RAbs(RAdd(T[2], T[3])), Q(1000))
     \/ RAbs(RAdd(T[2], T[3])) = Q(1000)
  /\ \/ RLess(RAbs(RSub(T[1], T[4])), Q(1000))
     \/ RAbs(RSub(T[1], T[4])) = Q(1000)

\* C8 as stated: an augmentation for which at least
\* MAR_MIN_NUM_OF_MATCHED_KEYPOINTS frame keypoints were accepted by
\* get_best_keypoint_match in the phase that ran last is fitted and gets
\* MAR_ERROR_NONE when the checks pass; with fewer accepted it gets
\* MAR_ERROR_TOO_FEW_MATCHING_KEYPOINTS.
C8_AcceptedDecide ==
  \A i \in AugmentationIds :
    Tracked(i) =>
      /\ last.trace[i].accepted >= MAR_MIN_NUM_OF_MATCHED_KEYPOINTS
         => /\ last.trace[i].solved
            /\ WithinLimits(last.trace[i].T)
               => mar_augmentation_successful[i] = MAR_ERROR_NONE
      /\ last.trace[i].accepted < MAR_MIN_NUM_OF_MATCHED_KEYPOINTS
         => /\ ~last.trace[i].solved
            /\ mar_augmentation_successful[i] = MAR_ERROR_TOO_FEW_MATCHING_KEYPOINTS

\* C8 amended: the matches that decide are those accepted by
\* get_best_keypoint_match with a difference below MAR_MAX_KEYPOINT_DIFFERENCE.
\* With at least MAR_MIN_NUM_OF_MATCHED_KEYPOINTS of them in the phase that ran
\* last the augmentation is fitted and gets MAR_ERROR_NONE when the checks
\* pass; with fewer it gets MAR_ERROR_TOO_FEW_MATCHING_KEYPOINTS.
C8_LowDifferenceDecide ==
  \A i \in AugmentationIds :
    Tracked(i) =>
      /\ last.trace[i].low >= MAR_MIN_NUM_OF_MATCHED_KEYPOINTS
         => /\ last.trace[i].solved
            /\ WithinLimits(last.trace[i].T)
               => mar_augmentation_successful[i] = MAR_ERROR_NONE
      /\ last.trace[i].low < MAR_MIN_NUM_OF_MATCHED_KEYPOINTS
         => /\ ~last.trace[i].solved
            /\ mar_augmentation_successful[i] = MAR_ERROR_TOO_FEW_MATCHING_KEYPOINTS

\* An update has fitted an augmentation from exactly
\* MAR_MIN_NUM_OF_MATCHED_KEYPOINTS matches and left it with MAR_ERROR_NONE.
C8_ExactlyEnough ==
  \E i \in AugmentationIds :
    /\ Tracked(i)
    /\ last.trace[i].low = MAR_MIN_NUM_OF_MATCHED_KEYPOINTS
    /\ last.trace[i].accepted = MAR_MIN_NUM_OF_MATCHED_KEYPOINTS
    /\ mar_augmentation_successful[i] = MAR_ERROR_NONE

AllReferencesAppear(i) ==
  \A l \in 1..mar_augmentations[i].num_initial_keypoints :
    \E j \in DOMAIN mar_sift_keypoints :
      mar_sift_keypoints[j].descriptor = mar_augmentations[i].initial_keypoints[l].descriptor

\* No two references of augmentation i have the same descriptor.
DistinctReferences(i) ==
  \A l, m \in 1..mar_augmentations[i].num_initial_keypoints :
    l # m => mar_augmentations[i].initial_keypoints[l].descriptor
               # mar_augmentations[i].initial_keypoints[m].descriptor

\* C10 as stated: the whole-frame matching runs exactly when fewer than
\* MAR_MIN_NUM_OF_MATCHED_KEYPOINTS keypoints of the patch were accepted; it
\* starts from no matches and looks at every keypoint of the frame, and an
\* augmentation whose references all appear in the frame ends with
\* MAR_ERROR_NONE.
C10_FallbackWhenFewAccepted ==
  \A i \in AugmentationIds :
    Tracked(i) =>
      /\ last.trace[i].fallback
         <=> last.trace[i].patch_accepted < MAR_MIN_NUM_OF_MATCHED_KEYPOINTS
      /\ last.trace[i].fallback
         => /\ last.trace[i].probes = Len(mar_sift_keypoints)
            /\ last.trace[i].matched_keypoints <= last.trace[i].accepted
      /\ (last.trace[i].fallback /\ AllReferencesAppear(i))
         => mar_augmentation_successful[i] = MAR_ERROR_NONE

\* C10 amended: the whole-frame matching runs exactly when fewer than
\* MAR_MIN_NUM_OF_MATCHED_KEYPOINTS keypoints of the patch were accepted with a
\* difference below MAR_MAX_KEYPOINT_DIFFERENCE; it starts from no matches and
\* looks at every keypoint of the frame, and an augmentation whose references
\* differ from one another and all appear in the frame is fitted and ends with
\* MAR_ERROR_NONE when the fit passes the checks.
C10_FallbackWhenFewLowDifference ==
  \A i \in AugmentationIds :
    Tracked(i) =>
      /\ last.trace[i].fallback
         <=> last.trace[i].patch_low < MAR_MIN_NUM_OF_MATCHED_KEYPOINTS
      /\ last.trace[i].fallback
         => /\ last.trace[i].probes = Len(mar_sift_keypoints)
            /\ last.trace[i].matched_keypoints <= last.trace[i].low
      /\ ~last.trace[i].fallback => last.trace[i].probes = last.trace[i].patch
      /\ (last.trace[i].fallback /\ AllReferencesAppear(i) /\ DistinctReferences(i))
         => /\ last.trace[i].solved
            /\ WithinLimits(last.trace[i].T)
               => mar_augmentation_successful[i] = MAR_ERROR_NONE

\* An update found no keypoint in the patch of an augmentation whose
\* references all appear in the frame, matched the whole frame and left it
\* with MAR_ERROR_NONE.
C10_FoundOutsidePatch ==
  \E i \in AugmentationIds :
    /\ Tracked(i)
    /\ last.trace[i].patch = 0
    /\ last.trace[i].fallback
    /\ AllReferencesAppear(i)
    /\ DistinctReferences(i)
    /\ mar_augmentations[i].num_initial_keypoints >= MAR_MINIMUM_AUGMENTATION_KEYPOINTS
    /\ mar_augmentation_successful[i] = MAR_ERROR_NONE

\* The number of keypoints that get_best_keypoint_match accepts against the
\* references of aug with a difference below MAR_MAX_KEYPOINT_DIFFERENCE.
MatchingKeypoints(aug, keypoints) ==
  Cardinality({j \in DOMAIN keypoints :
                 /\ get_best_keypoint_match(keypoints[j], aug.initial_keypoints,
                                            aug.num_initial_keypoints).k # -1
                 /\ get_best_keypoint_match(keypoints[j], aug.initial_keypoints,
                                            aug.num_initial_keypoints).best_difference
                      < MAR_MAX_KEYPOINT_DIFFERENCE})

\* C11: whatever its status before, an augmentation processed by
\* mar_augment_update on a frame that holds at least
\* MAR_MIN_NUM_OF_MATCHED_KEYPOINTS keypoints matching its references is
\* fitted, and gets MAR_ERROR_NONE when the fit passes the checks.
C11_MatchingFrameRecovers ==
  [][\A i \in AugmentationIds :
       ( /\ Stepped("mar_augment_update")
         /\ last'.trace[i].processed
         /\ MatchingKeypoints(mar_augmentations[i], mar_sift_keypoints')
              >= MAR_MIN_NUM_OF_MATCHED_KEYPOINTS )
       => /\ last'.trace[i].solved
          /\ WithinLimits(last'.trace[i].T)
             => mar_augmentation_successful'[i] = MAR_ERROR_NONE]_vars

C13_CameraErrorPropagates ==
  [][ /\ mar_augment_initialized
         => \A cam \in CameraUpdateErrors : mar_augment_update_result(cam) = cam
      /\ (Stepped("mar_augment_update") /\ last'.code # MAR_ERROR_NONE)
         => /\ last'.code \in CameraUpdateErrors
            /\ registry' = registry ]_vars

\* A failed update of the camera is the last call that changed anything, and
\* a live augmentation still has the transform and the status of its last fit.
C13_FailedWithTracked ==
  \E i \in AugmentationIds :
    /\ last.op = "mar_augment_update"
    /\ last.code = MAR_ERROR_CAMERA_TIMEOUT
    /\ Live(i)
    /\ mar_augmentation_successful[i] = MAR_ERROR_NONE
    /\ mar_augmentations[i].transform # ZeroMat3

\* The state is the one a call of fn has returned in.
Returned(fn) == direct.fn = fn /\ direct.returned

\* The L1 distances of the probe of the call to its references, in order.
Distances ==
  [i \in 1..Len(direct.args.keypoints) |->
     get_keypoint_difference(direct.args.k, direct.args.keypoints[i])]

\* The smallest of the distances d, the first index attaining it and the
\* smallest of the distances at the other indices.
Smallest(d) == CHOOSE x \in {d[i] : i \in DOMAIN d} : \A i \in DOMAIN d : x <= d[i]
FirstSmallest(d) == CHOOSE i \in DOMAIN d : d[i] = Smallest(d) /\ \A j \in 1..(i - 1) : d[j] # d[i]
SecondSmallest(d) ==
  CHOOSE x \in {d[i] : i \in DOMAIN d \ {FirstSmallest(d)}} :
    \A i \in DOMAIN d \ {FirstSmallest(d)} : x <= d[i]

C15_EquidistantRejected ==
  ( /\ Returned("get_best_keypoint_match")
    /\ Len(direct.args.keypoints) >= 2
    /\ Smallest(Distances) = SecondSmallest(Distances) )
  => direct.result.k = -1

\* C16: whether get_best_keypoint_match returns an index is the same for
\* every permutation of the references.
C16_DecisionOrderIndependent ==
  Returned("get_best_keypoint_match") =>
    \A p \in Permutations(DOMAIN direct.args.keypoints) :
      (get_best_keypoint_match(direct.args.k,
                               [i \in DOMAIN direct.args.keypoints |->
                                  direct.args.keypoints[p[i]]],
                               Len(direct.args.keypoints)).k = -1)
        <=> (direct.result.k = -1)

\* A call with three references at three different distances has returned an
\* index, and returns another index for the references in reverse order.
C16_IndexDependsOnOrder ==
  /\ Returned("get_best_keypoint_match")
  /\ Len(direct.args.keypoints) = 3
  /\ Cardinality({Distances[i] : i \in 1..3}) = 3
  /\ direct.result.k # -1
  /\ get_best_keypoint_match(direct.args.k,
                             [i \in 1..3 |-> direct.args.keypoints[4 - i]], 3).k
       \notin {-1, direct.result.k}

\* The keypoints moved by (dx, dy) in the image.
Shifted(keypoints, dx, dy) ==
  [j \in DOMAIN keypoints |->
     [keypoints[j] EXCEPT !.x = RAdd(@, Q(dx)), !.y = RAdd(@, Q(dy))]]

\* The displacements between a frame and the next.
Shifts == { <<0, 0>>, <<10, 0>> }

\* Three of the keypoints are not on one line.
NotCollinear(keypoints) ==
  \E a, b, c \in DOMAIN keypoints :
    RMul(RSub(keypoints[b].x, keypoints[a].x), RSub(keypoints[c].y, keypoints[a].y))
      # RMul(RSub(keypoints[b].y, keypoints[a].y), RSub(keypoints[c].x, keypoints[a].x))

\* Augmentation i was created by the last call, from a frame whose keypoints
\* all lie inside its ellipse, are no more than the reference list holds, have
\* descriptors that differ from one another and are not all on one line.
JustSeeded(i) ==
  /\ last.op = "mar_augment_new_augmentation"
  /\ last.code = MAR_ERROR_NONE
  /\ last.id = i
  /\ mar_augmentations[i].num_initial_keypoints = Len(mar_sift_keypoints)
  /\ mar_augmentations[i].new_keypoint_cursor = Len(mar_sift_keypoints)
  /\ \A a, b \in DOMAIN mar_sift_keypoints :
       a # b => mar_sift_keypoints[a].descriptor # mar_sift_keypoints[b].descriptor
  /\ NotCollinear(mar_sift_keypoints)

\* The affine matrix [[m00 m01 tx] [m10 m11 ty] [0 0 1]] of rationals.
Affine(m00, m01, m10, m11, tx, ty) ==
  << <<m00, m01, tx>>, <<m10, m11, ty>>, <<Q(0), Q(0), Q(1)>> >>

\* C17 as stated: the frame after the creation of an augmentation, holding
\* the keypoints it was seeded from moved by (dx, dy), leaves it with
\* MAR_ERROR_NONE and the translation m00 = m11 = 1, m01 = m10 = 0, tx = dx,
\* ty = dy.
C17_TranslationOnly ==
  [][\A i \in AugmentationIds : \A d \in Shifts :
       ( /\ JustSeeded(i)
         /\ Stepped("mar_augment_update")
         /\ last'.trace[i].processed
         /\ mar_sift_keypoints' = Shifted(mar_sift_keypoints, d[1], d[2]) )
       => /\ mar_augmentation_successful'[i] = MAR_ERROR_NONE
          /\ mar_augmentations'[i].transform
               = Affine(Q(1), Q(0), Q(0), Q(1), Q(d[1]), Q(d[2]))]_vars

\* C17 amended: the frame after the creation of an augmentation, holding the
\* keypoints it was seeded from moved by (dx, dy), leaves it with
\* MAR_ERROR_NONE and the transform from the reference frame of the patch to
\* the image: m00 = m11 = (ellipse_a + ellipse_b) / 2, m01 = m10 = 0,
\* tx = ellipse_x + dx, ty = ellipse_y + dy.
C17_ReferenceFrameToImage ==
  [][\A i \in AugmentationIds : \A d \in Shifts :
       ( /\ JustSeeded(i)
         /\ Stepped("mar_augment_update")
         /\ last'.trace[i].processed
         /\ mar_sift_keypoints' = Shifted(mar_sift_keypoints, d[1], d[2]) )
       => /\ mar_augmentation_successful'[i] = MAR_ERROR_NONE
          /\ mar_augmentations'[i].transform
               = Affine(RDiv(Q(mar_augmentations[i].mser.ellipse_a
                                 + mar_augmentations[i].mser.ellipse_b), Q(2)),
                        Q(0), Q(0),
                        RDiv(Q(mar_augmentations[i].mser.ellipse_a
                                 + mar_augmentations[i].mser.ellipse_b), Q(2)),
                        Q(mar_augmentations[i].mser.ellipse_x + d[1]),
                        Q(mar_augmentations[i].mser.ellipse_y + d[2]))]_vars

\* An augmentation seeded from frame 1 inside RegionA has been tracked in
\* frame 2, which holds the keypoints of frame 1 moved by (10, 0), and its
\* references are still the seeds.
C17_MovedRegionTracked ==
  \E i \in AugmentationIds :
    /\ Tracked(i)
    /\ mar_augmentations[i].mser = RegionA
    /\ mar_sift_keypoints = Shifted(FrameKeypoints(1), 10, 0)
    /\ mar_augmentations[i].num_initial_keypoints = Len(FrameKeypoints(1))
    /\ \A l \in DOMAIN FrameKeypoints(1) :
         /\ mar_augmentations[i].initial_keypoints[l].descriptor
              = FrameKeypoints(1)[l].descriptor
         /\ RAdd(RMul(Q(2), mar_augmentations[i].initial_keypoints[l].x), Q(2))
              = FrameKeypoints(1)[l].x
    /\ mar_augmentation_successful[i] = MAR_ERROR_NONE
    /\ mar_augmentations[i].transform
         = Affine(RDiv(Q(RegionA.ellipse_a + RegionA.ellipse_b), Q(2)), Q(0), Q(0),
                  RDiv(Q(RegionA.ellipse_a + RegionA.ellipse_b), Q(2)),
                  Q(RegionA.ellipse_x + 10), Q(RegionA.ellipse_y))
    /\ mar_augmentations[i].transform # Affine(Q(1), Q(0), Q(0), Q(1), Q(10), Q(0))

\* The affine map T as six rationals.
AsRationals(T) == [c \in 1..6 |-> Q(T[c])]

\* C18 as stated: for every set of at least three different points and every
\* affine T with a determinant other than zero, the fit of the correspondences
\* p -> T p is T.
C18_FitRecoversTransform ==
  ( /\ Returned("pinv")
    /\ Len(direct.args.keypoints) >= 3
    /\ \A a, b \in DOMAIN direct.args.keypoints :
         a # b => direct.args.keypoints[a] # direct.args.keypoints[b]
    /\ direct.args.T[1] * direct.args.T[4] # direct.args.T[2] * direct.args.T[3] )
  => direct.result = AsRationals(direct.args.T)

\* C18 amended: for every set of at least three points that are not all on
\* one line and every affine T with a determinant other than zero, the fit of
\* the correspondences p -> T p is T.
C18_FitRecoversFromSpread ==
  ( /\ Returned("pinv")
    /\ Len(direct.args.keypoints) >= 3
    /\ NotCollinear(direct.args.keypoints)
    /\ direct.args.T[1] * direct.args.T[4] # direct.args.T[2] * direct.args.T[3] )
  => direct.result = AsRationals(direct.args.T)

\* The fit has recovered the map with shear and unequal scales from four
\* points, three of them on one line.
C18_ShearRecovered ==
  /\ Returned("pinv")
  /\ Len(direct.args.keypoints) = 4
  /\ NotCollinear(direct.args.keypoints)
  /\ ~NotCollinear(SubSeq(direct.args.keypoints, 1, 3))
  /\ direct.args.T = <<2, 1, 0, 3, -1, 4>>
  /\ direct.result = << Q(2), Q(1), Q(0), Q(3), Q(-1), Q(4) >>

\* C19: for a live augmentation whose transform is
\* [[m00 m01 tx] [m10 m11 ty] [0 0 1]], mar_augment_get_transformation returns
\* MAR_ERROR_NONE and fills mat with
\* [m00, m10, 0, 0, m01, m11, 0, 0, 0, 0, 1, 0, tx, ty, 0, 1].
C19_ColumnMajorMatrix ==
  \A id \in AugmentationIds :
    ( /\ Live(id)
      /\ mar_augmentations[id].transform[3] = << Q(0), Q(0), Q(1) >> )
    => /\ mar_augment_get_transformation_result(id).code = MAR_ERROR_NONE
       /\ mar_augment_get_transformation_result(id).mat
            = << mar_augmentations[id].transform[1][1],
                 mar_augmentations[id].transform[2][1], Q(0), Q(0),
                 mar_augmentations[id].transform[1][2],
                 mar_augmentations[id].transform[2][2], Q(0), Q(0),
                 Q(0), Q(0), Q(1), Q(0),
                 mar_augmentations[id].transform[1][3],
                 mar_augmentations[id].transform[2][3], Q(0), Q(1) >>

\* A live augmentation has a committed transform whose translation is not
\* zero and whose entries m01 and m10 differ.
C19_SkewedTransformRead ==
  \E id \in AugmentationIds :
    /\ Live(id)
    /\ mar_augmentations[id].transform[3] = << Q(0), Q(0), Q(1) >>
    /\ mar_augmentations[id].transform[1][2] # mar_augmentations[id].transform[2][1]
    /\ mar_augmentations[id].transform[1][3] # Q(0)
    /\ mar_augment_get_transformation_result(id).mat[13]
         = mar_augmentations[id].transform[1][3]
    /\ mar_augment_get_transformation_result(id).mat[5]
         = mar_augmentations[id].transform[1][2]

\* C20: whenever mar_augmentation_get_error reports MAR_ERROR_NONE for a live
\* augmentation, the augmentation has committed a fit since it was created:
\* the bottom row of its transform is [0 0 1].
C20_OkMeansCommitted ==
  \A id \in AugmentationIds :
    ( /\ Live(id)
      /\ mar_augmentation_get_error_result(id) = MAR_ERROR_NONE )
    => mar_augmentations[id].transform[3] = << Q(0), Q(0), Q(1) >>

\* The keypoints of the sequence that lie inside the ellipse of the region, in
\* the order of the sequence.
InsideRegion(keypoints, region) ==
  LET Inside(kp) == is_point_in_ellipse(kp.x, kp.y, region.ellipse_x, region.ellipse_y,
                                        region.ellipse_a, region.ellipse_b,
                                        region.ellipse_angle)
  IN  SelectSeq(keypoints, Inside)

\* The potential list of the augmentation mar_augment_new_augmentation has
\* just created in slot i is empty.
FreshPotentialList(i) == mar_augmentations'[i].num_potential_keypoints = 0

\* The references of the augmentation mar_augment_new_augmentation has just
\* created in slot i are the first in-ellipse keypoints of the frame, at most
\* MAR_MAX_NUMBER_OF_AUGMENTATION_KEYPOINTS of them, in order.
FirstInsideKept(i) ==
  LET inside == InsideRegion(mar_sift_keypoints', mar_augmentations'[i].mser)
      count == IF Len(inside) > MAR_MAX_NUMBER_OF_AUGMENTATION_KEYPOINTS
               THEN MAR_MAX_NUMBER_OF_AUGMENTATION_KEYPOINTS ELSE Len(inside)
  IN  /\ mar_augmentations'[i].num_initial_keypoints = count
      /\ \A l \in 1..count :
           mar_augmentations'[i].initial_keypoints[l].descriptor = inside[l].descriptor

\* C21: right after mar_augment_new_augmentation has returned MAR_ERROR_NONE,
\* also for a slot that held an augmentation before, the new augmentation has
\* no potential keypoints, and its references are the in-ellipse keypoints of
\* the frame in order; of more than MAR_MAX_NUMBER_OF_AUGMENTATION_KEYPOINTS
\* the first ones are the references and none of them is overwritten.
C21_SeededFromFirst ==
  [][\A i \in AugmentationIds :
       ( /\ Stepped("mar_augment_new_augmentation")
         /\ last'.code = MAR_ERROR_NONE
         /\ last'.id = i )
       => FreshPotentialList(i) /\ FirstInsideKept(i)]_vars

\* C22: a mar_augment_update while augmentation is stopped leaves the
\* transform, the status, the references and the potential keypoints of every
\* augmentation as they were.
C22_StoppedUpdateKeepsInstances ==
  [][( /\ ~mar_run_augmentation
       /\ Stepped("mar_augment_update") )
     => /\ mar_augmentations' = mar_augmentations
        /\ mar_augmentation_successful' = mar_augmentation_successful]_vars

\* A frame was delivered while augmentation was stopped by
\* mar_stop_augmentation, to a live augmentation that earlier frames had
\* tracked and that the frame would have had keypoints for.
C22_StoppedWithTracked ==
  \E i \in AugmentationIds :
    /\ Live(i)
    /\ last.op = "mar_augment_update"
    /\ last.code = MAR_ERROR_NONE
    /\ ~mar_run_augmentation
    /\ ~mar_sift_calculated_this_frame
    /\ frame_buffer = 1
    /\ ~last.trace[i].processed
    /\ mar_augmentations[i].transform # ZeroMat3
    /\ mar_augmentations[i].num_potential_keypoints > 0

\* C23: the potential keypoints an augmentation holds after a frame that
\* processed it, which are the ones the next frame matches against, were all
\* recorded in that frame: each is a keypoint of the frame.  This is so also
\* when the frame ended in MAR_ERROR_TOO_FEW_MATCHING_KEYPOINTS.
C23_PotentialsOfLastFrameOnly ==
  [][\A i \in AugmentationIds :
       ( /\ Stepped("mar_augment_update")
         /\ last'.trace[i].processed
         /\ ~ReadsOutside(last'.trace) )
       => \A l \in 1..mar_augmentations'[i].num_potential_keypoints :
            \E j \in DOMAIN mar_sift_keypoints' :
              mar_augmentations'[i].potential_keypoints[l] = mar_sift_keypoints'[j]]_vars

\* C24: a mar_augment_update that runs the tracker processes every live
\* augmentation, each against the keypoints the detector found in the frame,
\* which are the keypoints the call leaves behind: what it does to an
\* augmentation is what processing that augmentation alone with these
\* keypoints does.
C24_SameKeypointsForAll ==
  [][( /\ Stepped("mar_augment_update")
       /\ mar_run_augmentation
       /\ last'.code = MAR_ERROR_NONE )
     => /\ mar_sift_keypoints' = FrameKeypoints(frame_buffer')
        /\ \A i \in AugmentationIds :
             mar_augmentation_initialized[i] =>
               /\ last'.trace[i].processed
               /\ \E junk \in Junk :
                    /\ mar_augmentations'[i] =
                         UpdateAugmentation(mar_augmentations[i],
                                            FrameKeypoints(frame_buffer'), junk).aug
                    /\ mar_augmentation_successful'[i] =
                         UpdateAugmentation(mar_augmentations[i],
                                            FrameKeypoints(frame_buffer'), junk).successful]_vars

\* Two live augmentations with different references were both tracked in the
\* same frame, the first of them matching keypoints and recording potential
\* keypoints before the second was processed.
C24_BothTrackedInOneFrame ==
  /\ Tracked(0) /\ Tracked(1)
  /\ Live(0) /\ Live(1)
  /\ mar_augmentation_successful[0] = MAR_ERROR_NONE
  /\ mar_augmentation_successful[1] = MAR_ERROR_NONE
  /\ mar_augmentations[0].initial_keypoints # mar_augmentations[1].initial_keypoints
  /\ mar_augmentations[0].num_potential_keypoints > 0
  /\ mar_augmentations[1].transform # ZeroMat3
  /\ last.trace[1].matched_keypoints >= MAR_MIN_NUM_OF_MATCHED_KEYPOINTS

\* C25: mar_augment_update invalidates the cached detector results (what is
\* cached after it is what its own detector run found in the new frame), and
\* from then to the next mar_augment_update a cached result stays cached and
\* is the same array for every caller: no other call runs a detector again
\* or changes the cached keypoints or regions.
C25_OneDetectorRunPerFrame ==
  [][ /\ Stepped("mar_augment_update") =>
           /\ ~mar_mser_calculated_this_frame'
           /\ mar_sift_calculated_this_frame' =>
                mar_sift_keypoints' = FrameKeypoints(frame_buffer')
      /\ ~Stepped("mar_augment_update") =>
           /\ mar_sift_calculated_this_frame =>
                /\ mar_sift_calculated_this_frame'
                /\ mar_sift_keypoints' = mar_sift_keypoints
           /\ mar_mser_calculated_this_frame =>
                /\ mar_mser_calculated_this_frame'
                /\ mar_mser_regions' = mar_mser_regions ]_vars

\* C26: creating or destroying an augmentation leaves the references, the
\* potential keypoints, the transform and the status of every other live
\* augmentation as they were, and what mar_augment_update does to a live
\* augmentation is what processing it alone does, whatever other augmentations
\* are live.
C26_OwnStateOnly ==
  [][\A j \in AugmentationIds :
       mar_augmentation_initialized[j] =>
         /\ ( /\ \/ Stepped("mar_augment_new_augmentation")
                  \/ Stepped("mar_augment_free_augmentation")
               /\ last'.id # j )
            => /\ mar_augmentations'[j] = mar_augmentations[j]
               /\ mar_augmentation_successful'[j] = mar_augmentation_successful[j]
         /\ ( /\ Stepped("mar_augment_update")
               /\ last'.trace[j].processed )
            => \E junk \in Junk :
                 /\ mar_augmentations'[j] =
                      UpdateAugmentation(mar_augmentations[j], mar_sift_keypoints', junk).aug
                 /\ mar_augmentation_successful'[j] =
                      UpdateAugmentation(mar_augmentations[j], mar_sift_keypoints',
                                         junk).successful]_vars

\* Augmentation 0 was destroyed while augmentation 1 was live with a
\* committed transform, potential keypoints and the status
\* MAR_ERROR_TOO_FEW_MATCHING_KEYPOINTS of a lost frame, all of which it kept.
C26_NeighbourDestroyed ==
  /\ last.op = "mar_augment_free_augmentation"
  /\ last.id = 0
  /\ ~mar_augmentation_initialized[0]
  /\ Live(1)
  /\ mar_augmentation_successful[1] = MAR_ERROR_TOO_FEW_MATCHING_KEYPOINTS
  /\ mar_augmentations[1].transform # ZeroMat3
  /\ mar_augmentations[1].num_potential_keypoints > 0
  /\ mar_augmentations[0].num_initial_keypoints > 0

\* min(a, b)
Min(a, b) == IF a < b THEN a ELSE b

\* C27: a frame that promotes p keypoints of an augmentation raises its
\* num_initial_keypoints by p, up to MAR_MAX_NUMBER_OF_AUGMENTATION_KEYPOINTS,
\* so that the promoted references are among the ones later frames match.
C27_PromotionRaisesCount ==
  [][\A i \in AugmentationIds :
       ( /\ Stepped("mar_augment_update")
         /\ last'.trace[i].processed
         /\ ~ReadsOutside(last'.trace) )
       => mar_augmentations'[i].num_initial_keypoints
            = Min(MAR_MAX_NUMBER_OF_AUGMENTATION_KEYPOINTS,
                  mar_augmentations[i].num_initial_keypoints + last'.trace[i].promoted)]_vars

\* C28: when a frame's promotions bring the keypoints inserted into an
\* augmentation (references and promotions, none overwritten so far) to
\* MAR_MAX_NUMBER_OF_AUGMENTATION_KEYPOINTS + 1, the augmentation then has
\* MAR_MAX_NUMBER_OF_AUGMENTATION_KEYPOINTS references, the cursor is behind
\* the first entry and the first entry, the oldest, is the one overwritten.
C28_WrapOverwritesOldest ==
  [][\A i \in AugmentationIds :
       ( /\ Stepped("mar_augment_update")
         /\ last'.trace[i].processed
         /\ ~ReadsOutside(last'.trace)
         /\ mar_augmentations[i].new_keypoint_cursor
              = mar_augmentations[i].num_initial_keypoints
                  % MAR_MAX_NUMBER_OF_AUGMENTATION_KEYPOINTS
         /\ mar_augmentations[i].num_initial_keypoints + last'.trace[i].promoted
              = MAR_MAX_NUMBER_OF_AUGMENTATION_KEYPOINTS + 1 )
       => /\ mar_augmentations'[i].num_initial_keypoints
               = MAR_MAX_NUMBER_OF_AUGMENTATION_KEYPOINTS
          /\ mar_augmentations'[i].new_keypoint_cursor = 1
          /\ mar_augmentations'[i].initial_keypoints[1]
               # mar_augmentations[i].initial_keypoints[1]
          /\ \A l \in 2..MAR_MAX_NUMBER_OF_AUGMENTATION_KEYPOINTS - 1 :
               mar_augmentations'[i].initial_keypoints[l].x
                 = mar_augmentations[i].initial_keypoints[l].x]_vars

\* C29: after a frame that committed a fit, every keypoint of the patch that
\* was not promoted is in the new potential list, up to its capacity: the
\* list has min(capacity, patch - promoted) entries.
C29_UnpromotedBecomePotential ==
  [][\A i \in AugmentationIds :
       ( /\ Stepped("mar_augment_update")
         /\ last'.trace[i].processed
         /\ mar_augmentation_successful'[i] = MAR_ERROR_NONE
         /\ ~ReadsOutside(last'.trace) )
       => mar_augmentations'[i].num_potential_keypoints
            = Min(MAR_MAX_NUMBER_OF_AUGMENTATION_KEYPOINTS,
                  last'.trace[i].grow_patch - last'.trace[i].promoted)]_vars

\* C30: no keypoint is promoted on the strength of a potential keypoint that
\* the grow step of the same frame recorded.
C30_PromotedByPreviousFrameOnly ==
  \A i \in AugmentationIds : last.trace[i].promoted_by_new = 0

\* C31: the fit of a frame is given at most MAR_MAX_NUM_OF_MATCHED_KEYPOINTS
\* correspondences, and every index at which it reads x, y, u and v is below
\* MAR_MAX_NUM_OF_MATCHED_KEYPOINTS.
C31_FitReadsInsideBuffer ==
  \A i \in AugmentationIds :
    (Tracked(i) /\ last.trace[i].solved)
      => last.trace[i].matched_keypoints <= MAR_MAX_NUM_OF_MATCHED_KEYPOINTS

\* The descriptors of the keypoints of the frame the step processed.
FrameDescriptors ==
  {mar_sift_keypoints'[j].descriptor : j \in 1..Len(mar_sift_keypoints')}

\* C32: when the first keypoint of a processed frame is an accepted match of
\* reference k, that reference holds, after the frame, the whole descriptor of
\* a keypoint of the frame (the one matched to it last).
C32_MatchedReferenceTakesDescriptor ==
  [][\A i \in AugmentationIds :
       ( /\ Stepped("mar_augment_update")
         /\ last'.trace[i].processed
         /\ Len(mar_sift_keypoints') > 0 )
       => LET r == get_best_keypoint_match(mar_sift_keypoints'[1],
                     mar_augmentations[i].initial_keypoints,
                     mar_augmentations[i].num_initial_keypoints)
          IN  r.k # -1
                => mar_augmentations'[i].initial_keypoints[r.k + 1].descriptor
                     \in FrameDescriptors]_vars

\* Keypoint record k with its descriptor left out.
WithoutDescriptor(k) == [k EXCEPT !.descriptor = <<>>]

\* C33: a frame that leaves augmentation i with
\* MAR_ERROR_TOO_FEW_MATCHING_KEYPOINTS changes of that augmentation only
\* descriptors of references, and these only when the patch matching accepted
\* a match: the region, the transform, the counts, the cursor, the potential
\* list and every other field of the references stay.
C33_FailedFrameKeepsInstance ==
  [][\A i \in AugmentationIds :
       ( /\ Stepped("mar_augment_update")
         /\ last'.trace[i].processed
         /\ mar_augmentation_successful'[i] = MAR_ERROR_TOO_FEW_MATCHING_KEYPOINTS )
       => /\ [mar_augmentations'[i] EXCEPT !.initial_keypoints = <<>>]
               = [mar_augmentations[i] EXCEPT !.initial_keypoints = <<>>]
          /\ \A l \in 1..MAR_MAX_NUMBER_OF_AUGMENTATION_KEYPOINTS :
               WithoutDescriptor(mar_augmentations'[i].initial_keypoints[l])
                 = WithoutDescriptor(mar_augmentations[i].initial_keypoints[l])
          /\ last'.trace[i].patch_accepted = 0
               => mar_augmentations'[i] = mar_augmentations[i]]_vars

\* A failed frame of a tracked augmentation that has a transform and a
\* potential list, with matches accepted in the patch matching.
C33_FailedAfterPatchMatches ==
  \E i \in AugmentationIds :
    /\ Tracked(i)
    /\ mar_augmentation_successful[i] = MAR_ERROR_TOO_FEW_MATCHING_KEYPOINTS
    /\ last.trace[i].patch_accepted > 0
    /\ mar_augmentations[i].transform # ZeroMat3
    /\ mar_augmentations[i].num_potential_keypoints > 0

\* C34: the first frame processed for an augmentation after its creation
\* gathers no keypoint into the patch, counts no match in the patch matching
\* and runs the whole-frame matching, whatever the ellipse.
C34_FirstFrameFallsBack ==
  [][\A i \in AugmentationIds :
       ( /\ last.op = "mar_augment_new_augmentation"
         /\ last.code = MAR_ERROR_NONE
         /\ last.id = i
         /\ Stepped("mar_augment_update")
         /\ last'.trace[i].processed )
       => /\ last'.trace[i].patch = 0
          /\ last'.trace[i].patch_matched = 0
          /\ last'.trace[i].fallback]_vars

\* The offset (x, y) turned by the angle whose sine and cosine are s and c,
\* counterclockwise: (c x - s y, s x + c y).
Rotated(x, y, s, c) ==
  << RSub(RMul(c, x), RMul(s, y)), RAdd(RMul(s, x), RMul(c, y)) >>

\* r[1]^2 / (2a)^2 + r[2]^2 / (2b)^2 for axes a, b # 0
DoubledEllipseForm(r, a, b) ==
  RAdd(RDiv(RMul(r[1], r[1]), Q(4 * a * a)), RDiv(RMul(r[2], r[2]), Q(4 * b * b)))

Sign(n) == IF n > 0 THEN 1 ELSE IF n < 0 THEN -1 ELSE 0

\* C35 as stated: is_point_in_ellipse is true exactly when the offset of the
\* point from the centre, turned by -sign(a - b) * ellipse_angle, has
\* rx^2 / (2a)^2 + ry^2 / (2b)^2 < 1.
C35_TurnsAgainstAngle ==
  Returned("is_point_in_ellipse") =>
    LET g == direct.args
        turn == (0 - Sign(g.ellipse_a - g.ellipse_b)) * g.ellipse_angle
        r == Rotated(RSub(g.px, Q(g.ellipse_x)), RSub(g.py, Q(g.ellipse_y)),
                     sin(turn), cos(turn))
    IN  direct.result
          <=> RLess(DoubledEllipseForm(r, g.ellipse_a, g.ellipse_b), Q(1))

\* C35: is_point_in_ellipse is true exactly when the offset of the point from
\* the centre, turned by ellipse_angle when a > b and by -ellipse_angle
\* otherwise, has rx^2 / (2a)^2 + ry^2 / (2b)^2 < 1; a point with the sum
\* equal to 1 is outside.
C35_TurnsWithAngle ==
  Returned("is_point_in_ellipse") =>
    LET g == direct.args
        turn == IF g.ellipse_a > g.ellipse_b THEN g.ellipse_angle
                ELSE 0 - g.ellipse_angle
        r == Rotated(RSub(g.px, Q(g.ellipse_x)), RSub(g.py, Q(g.ellipse_y)),
                     sin(turn), cos(turn))
        form == DoubledEllipseForm(r, g.ellipse_a, g.ellipse_b)
    IN  /\ direct.result <=> RLess(form, Q(1))
        /\ form = Q(1) => ~direct.result

\* The test has answered for a point on the boundary of a turned doubled
\* ellipse with unequal axes, off the axes of the frame.
C35_BoundaryOfTurnedEllipse ==
  /\ Returned("is_point_in_ellipse")
  /\ direct.args.ellipse_angle # 0
  /\ direct.args.ellipse_a # direct.args.ellipse_b
  /\ direct.args.px # Q(direct.args.ellipse_x)
  /\ direct.args.py # Q(direct.args.ellipse_y)
  /\ LET g == direct.args
         turn == IF g.ellipse_a > g.ellipse_b THEN g.ellipse_angle
                 ELSE 0 - g.ellipse_angle
         r == Rotated(RSub(g.px, Q(g.ellipse_x)), RSub(g.py, Q(g.ellipse_y)),
                      sin(turn), cos(turn))
     IN  DoubledEllipseForm(r, g.ellipse_a, g.ellipse_b) = Q(1)
  /\ ~direct.result

\* C36: in the "Add new points" loop of a frame that committed a fit, every
\* read of contained_keypoints is at an index below the number of keypoints
\* gathered, and unless the potential list filled up every gathered keypoint
\* is read.
C36_GrowReadsGathered ==
  \A i \in AugmentationIds :
    (Tracked(i) /\ mar_augmentation_successful[i] = MAR_ERROR_NONE)
      => /\ last.trace[i].grow_reads <= last.trace[i].grow_patch
         /\ mar_augmentations[i].num_potential_keypoints
               < MAR_MAX_NUMBER_OF_AUGMENTATION_KEYPOINTS
              => last.trace[i].grow_reads = last.trace[i].grow_patch

\* C37: a call of mar_augment_free_augmentation with an id outside the
\* arrays, such as MAR_NO_AUGMENTATION, changes nothing of the registry: not
\* the count, the liveness flags, the augmentations or their statuses.
C37_OutsideIdLeavesRegistry ==
  [][(last'.op = "mar_augment_free_augmentation" /\ last'.id \in OutsideIds)
       => UNCHANGED registry]_vars

\* C38: a mar_augment_new_augmentation that returns
\* MAR_ERROR_TOO_FEW_KEYPOINTS or MAR_ERROR_NO_AUGMENTATION_RESOURCES_AVAILABLE
\* leaves the liveness flags and the count as they were, leaves the record and
\* the status of every live augmentation as they were, and leaves the slot it
\* examined the first free one.
C38_FailedCreateKeepsRegistry ==
  [][( /\ prog' # prog
       /\ last'.op = "mar_augment_new_augmentation"
       /\ last'.code \in {MAR_ERROR_TOO_FEW_KEYPOINTS,
                          MAR_ERROR_NO_AUGMENTATION_RESOURCES_AVAILABLE} )
       => /\ mar_augmentation_initialized' = mar_augmentation_initialized
          /\ mar_number_of_augmentations' = mar_number_of_augmentations
          /\ \A i \in AugmentationIds :
               mar_augmentation_initialized[i]
                 => /\ mar_augmentations'[i] = mar_augmentations[i]
                    /\ mar_augmentation_successful'[i] = mar_augmentation_successful[i]
          /\ FreeSlots' # {}
          /\ FirstFreeSlot' = FirstFreeSlot]_vars

\* A create has failed for want of keypoints next to a live augmentation that
\* has a transform, in a slot that holds what the failed create wrote.
C38_FailedNextToTracked ==
  /\ last.op = "mar_augment_new_augmentation"
  /\ last.code = MAR_ERROR_TOO_FEW_KEYPOINTS
  /\ \E i \in AugmentationIds :
       /\ Live(i)
       /\ mar_augmentations[i].transform # ZeroMat3
  /\ FreeSlots # {}
  /\ mar_augmentations[FirstFreeSlot].mser = RegionA

\* C39: a mar_augment_init that fails leaves the pipeline uninitialized with
\* no camera slot held and the registry as it was; on an initialized pipeline
\* mar_augment_init returns MAR_ERROR_AUGMENTATION_ALREADY_INITIALIZED and
\* changes nothing; whenever the pipeline is uninitialized a mar_augment_init
\* whose stages all work returns MAR_ERROR_NONE, and a mar_augment_init that
\* succeeds leaves no live augmentation and the augmentation stopped.
C39_InitFailsCleanly ==
  [][/\ ( /\ prog' # prog
          /\ last'.op = "mar_augment_init"
          /\ last'.code # MAR_ERROR_NONE )
        => /\ ~mar_augment_initialized'
           /\ \A c \in DOMAIN mar_cameras : ~mar_cameras'[c]
           /\ UNCHANGED << registry, mar_run_augmentation >>
     /\ (mar_augment_initialized /\ prog' # prog) => last'.op # "mar_augment_init"
     /\ mar_augment_initialized
          => \A outcome \in {"ok", "config", "camera", "mser", "sift"} :
               mar_augment_init_result(outcome)
                 = MAR_ERROR_AUGMENTATION_ALREADY_INITIALIZED
     /\ ~mar_augment_initialized => mar_augment_init_result("ok") = MAR_ERROR_NONE
     /\ ( /\ prog' # prog
          /\ last'.op = "mar_augment_init"
          /\ last'.code = MAR_ERROR_NONE )
        => /\ mar_augment_initialized'
           /\ ~mar_run_augmentation'
           /\ mar_number_of_augmentations' = 0
           /\ \A i \in AugmentationIds : ~mar_augmentation_initialized'[i]]_vars

\* The pipeline has been initialized again after a session in which an
\* augmentation was created and the keypoints of a frame were computed.
C39_InitializedAgain ==
  /\ last.op = "mar_augment_init"
  /\ last.code = MAR_ERROR_NONE
  /\ mar_augment_initialized
  /\ mar_sift_calculated_this_frame
  /\ \E i \in AugmentationIds : mar_augmentations[i].num_initial_keypoints > 0

====
